---- MODULE Spec2Model ----
(***************************************************************************)
(* A model of polyglot-es (src/index.js): the plural-category functions,   *)
(* the locale resolver, the token matcher, the phrase transformer and the  *)
(* Polyglot facade.                                                        *)
(*                                                                         *)
(* JavaScript strings are sequences of one-character strings.  JavaScript  *)
(* values are records [t, s, n]: t is the typeof tag ("null" for null), s  *)
(* the characters of a string and n the value of a number.                 *)
(***************************************************************************)
EXTENDS Integers, Sequences, FiniteSets, TLC

VARIABLES phrases, currentLocale, onMissingKey, tokenRegex, pluralRules,
          pc, call, ret

vars == <<phrases, currentLocale, onMissingKey, tokenRegex, pluralRules,
          pc, call, ret>>

facade == <<phrases, currentLocale, onMissingKey, tokenRegex, pluralRules, pc>>

(***************************************************************************)
(* Bounds of the model.                                                    *)
(***************************************************************************)
\* counts run over -MaxNeg .. MaxCount
MaxCount == 121
MaxNeg == 12
\* phrases of the interpolation cases are made of at most MaxSegs segments
MaxSegs == 2

(***************************************************************************)
(* JavaScript values.                                                      *)
(***************************************************************************)
Undefined == [t |-> "undefined", s |-> <<>>, n |-> 0]
Null == [t |-> "null", s |-> <<>>, n |-> 0]
Str(x) == [t |-> "string", s |-> x, n |-> 0]
Num(x) == [t |-> "number", s |-> <<>>, n |-> x]
\* a plain object or a function whose content the model does not need
Obj == [t |-> "object", s |-> <<>>, n |-> 0]
Fn(x) == [t |-> "function", s |-> x, n |-> 0]

\* the typeof operator
TypeOf(v) == IF v.t = "null" THEN "object" ELSE v.t

\* the remainder operator %: the sign of the result is the dividend's
JsRem(a, b) == IF a >= 0 THEN a % b ELSE -((-a) % b)

Digit(d) == <<"0", "1", "2", "3", "4", "5", "6", "7", "8", "9">>[d + 1]

RECURSIVE NatToString(_)
NatToString(n) ==
    IF n < 10 THEN <<Digit(n)>> ELSE NatToString(n \div 10) \o <<Digit(n % 10)>>

\* String(n) of an integer n
NumberToString(n) == IF n < 0 THEN <<"-">> \o NatToString(-n) ELSE NatToString(n)

(***************************************************************************)
(* Pluralization methods.                                                  *)
(***************************************************************************)
delimiter == <<"|", "|", "|", "|">>

\* arabic groups whose fourth category stops short of 10
arabicPluralGroupsShort(n) ==
    IF n < 3 THEN n
    ELSE LET lastTwo == JsRem(n, 100) IN
         IF lastTwo >= 3 /\ lastTwo < 10 THEN 3
         ELSE IF lastTwo >= 11 THEN 4 ELSE 5

arabicPluralGroups(n) ==
    IF n < 3 THEN n
    ELSE LET lastTwo == JsRem(n, 100) IN
         IF lastTwo >= 3 /\ lastTwo <= 10 THEN 3
         ELSE IF lastTwo >= 11 THEN 4 ELSE 5

chinesePluralGroups(n) == 0

czechPluralGroups(n) ==
    IF n = 1 THEN 0
    ELSE IF n >= 2 /\ n <= 4 THEN 1 ELSE 2

frenchPluralGroups(n) == IF n > 1 THEN 1 ELSE 0

\* german groups that take 0 for a singular
germanPluralGroupsZero(n) == IF n <= 1 /\ n >= 0 THEN 0 ELSE 1

germanPluralGroups(n) == IF n = 1 THEN 0 ELSE 1

icelandicPluralGroups(n) ==
    IF JsRem(n, 10) # 1 \/ JsRem(n, 100) = 11 THEN 1 ELSE 0

lithuanianPluralGroups(n) ==
    LET lastTwo == JsRem(n, 100)
        lastOne == JsRem(lastTwo, 10)
    IN  IF lastOne = 1 /\ lastTwo # 11 THEN 0
        ELSE IF lastOne >= 2 /\ lastOne <= 9 /\ (lastTwo < 11 \/ lastTwo > 19)
             THEN 1 ELSE 2

polistPluralGroups(n) ==
    IF n = 1 THEN 0
    ELSE LET lastTwo == JsRem(n, 100)
             lastOne == JsRem(lastTwo, 10)
         IN  IF lastOne >= 2 /\ lastOne <= 4 /\ (lastTwo < 10 \/ lastTwo >= 20)
             THEN 1 ELSE 2

\* russian groups that forget the teens 12 to 14
russianPluralGroupsTeens(n) ==
    LET lastTwo == JsRem(n, 100)
        lastOne == JsRem(lastTwo, 10)
    IN  IF lastTwo # 11 /\ lastOne = 1 THEN 0
        ELSE IF lastOne >= 2 /\ lastOne <= 4 THEN 1 ELSE 2

russianPluralGroups(n) ==
    LET lastTwo == JsRem(n, 100)
        lastOne == JsRem(lastTwo, 10)
    IN  IF lastTwo # 11 /\ lastOne = 1 THEN 0
        ELSE IF lastOne >= 2 /\ lastOne <= 4 /\ ~(lastTwo >= 12 /\ lastTwo <= 14)
             THEN 1 ELSE 2

slovenianPluralGroups(n) ==
    LET r == JsRem(n, 100) IN
    CASE r = 1 -> 0
      [] r = 2 -> 1
      [] r \in {3, 4} -> 2
      [] OTHER -> 3

\* the plural types of a caller's rule set: germanLike(n), frenchLike(n)
germanLike(n) == IF n = 1 THEN 0 ELSE 1
frenchLike(n) == IF n <= 1 THEN 0 ELSE 1

\* the call f(n) of the function value named f
ApplyGroups(f, n) ==
    CASE f = "arabicPluralGroups" -> arabicPluralGroups(n)
      [] f = "chinesePluralGroups" -> chinesePluralGroups(n)
      [] f = "czechPluralGroups" -> czechPluralGroups(n)
      [] f = "frenchPluralGroups" -> frenchPluralGroups(n)
      [] f = "germanPluralGroups" -> germanPluralGroups(n)
      [] f = "icelandicPluralGroups" -> icelandicPluralGroups(n)
      [] f = "lithuanianPluralGroups" -> lithuanianPluralGroups(n)
      [] f = "polistPluralGroups" -> polistPluralGroups(n)
      [] f = "russianPluralGroups" -> russianPluralGroups(n)
      [] f = "slovenianPluralGroups" -> slovenianPluralGroups(n)
      [] f = "germanLike" -> germanLike(n)
      [] f = "frenchLike" -> frenchLike(n)

\* plural types whose croatian entry names the czech function
defaultPluralTypesCroatian ==
    [ arabic |-> "arabicPluralGroups",
      bosnian_serbian |-> "russianPluralGroups",
      chinese |-> "chinesePluralGroups",
      czech |-> "czechPluralGroups",
      croatian |-> "czechPluralGroups",
      french |-> "frenchPluralGroups",
      german |-> "germanPluralGroups",
      icelandic |-> "icelandicPluralGroups",
      lithuanian |-> "lithuanianPluralGroups",
      polish |-> "polistPluralGroups",
      russian |-> "russianPluralGroups",
      slovenian |-> "slovenianPluralGroups" ]

\* defaultPluralRules.pluralTypes: plural type -> function
defaultPluralTypes ==
    [ arabic |-> "arabicPluralGroups",
      bosnian_serbian |-> "russianPluralGroups",
      chinese |-> "chinesePluralGroups",
      czech |-> "czechPluralGroups",
      croatian |-> "russianPluralGroups",
      french |-> "frenchPluralGroups",
      german |-> "germanPluralGroups",
      icelandic |-> "icelandicPluralGroups",
      lithuanian |-> "lithuanianPluralGroups",
      polish |-> "polistPluralGroups",
      russian |-> "russianPluralGroups",
      slovenian |-> "slovenianPluralGroups" ]

\* defaultPluralRules.pluralTypeToLanguages: the entries <<type, langs>> in
\* the order Object.entries yields them
defaultPluralTypeToLanguages ==
    <<
       <<"arabic", <<<<"a","r">>>>>>,
       <<"bosnian_serbian", <<<<"b","s","-","L","a","t","n","-","B","A">>,
           <<"b","s","-","C","y","r","l","-","B","A">>,
           <<"s","r","l","-","R","S">>,
           <<"s","r","-","R","S">>>>>>,
       <<"chinese", <<<<"i","d">>,
           <<"i","d","-","I","D">>,
           <<"j","a">>,
           <<"k","o">>,
           <<"k","o","-","K","R">>,
           <<"l","o">>,
           <<"m","s">>,
           <<"t","h">>,
           <<"t","h","-","T","H">>,
           <<"z","h">>>>>>,
       <<"croatian", <<<<"h","r">>,
           <<"h","r","-","H","R">>>>>>,
       <<"german", <<<<"f","a">>,
           <<"d","a">>,
           <<"d","e">>,
           <<"e","n">>,
           <<"e","s">>,
           <<"f","i">>,
           <<"e","l">>,
           <<"h","e">>,
           <<"h","i","-","I","N">>,
           <<"h","u">>,
           <<"h","u","-","H","U">>,
           <<"i","t">>,
           <<"n","l">>,
           <<"n","o">>,
           <<"p","t">>,
           <<"s","v">>,
           <<"t","r">>>>>>,
       <<"french", <<<<"f","r">>,
           <<"t","l">>,
           <<"p","t","-","b","r">>>>>>,
       <<"russian", <<<<"r","u">>,
           <<"r","u","-","R","U">>>>>>,
       <<"lithuanian", <<<<"l","t">>>>>>,
       <<"czech", <<<<"c","s">>,
           <<"c","s","-","C","Z">>,
           <<"s","k">>>>>>,
       <<"polish", <<<<"p","l">>>>>>,
       <<"icelandic", <<<<"i","s">>>>>>,
       <<"slovenian", <<<<"s","l","-","S","L">>>>>>
    >>

defaultPluralRules ==
    [ pluralTypes |-> defaultPluralTypes,
      pluralTypeToLanguages |-> defaultPluralTypeToLanguages ]

\* a caller's rule set: the locales 'x1' and 'x2' only
customPluralRules ==
    [ pluralTypes |-> [germanLike |-> "germanLike", frenchLike |-> "frenchLike"],
      pluralTypeToLanguages |->
        << <<"germanLike", << <<"x", "1">> >> >>, <<"frenchLike", << <<"x", "2">> >> >> >> ]

\* a caller's rule set that gives 'fr' the germanLike and 'en' the
\* frenchLike function
swappedPluralRules ==
    [ pluralTypes |-> [germanLike |-> "germanLike", frenchLike |-> "frenchLike"],
      pluralTypeToLanguages |->
        << <<"germanLike", << <<"f", "r">> >> >>, <<"frenchLike", << <<"e", "n">> >> >> >> ]

(***************************************************************************)
(* Locale resolver.                                                        *)
(***************************************************************************)
\* The names every plain object inherits from Object.prototype: a property
\* read obj[k] of such a name yields the inherited (truthy, non-string)
\* value when obj has no own property k.
ObjectPrototypeKeys ==
    { <<"c","o","n","s","t","r","u","c","t","o","r">>,
      <<"t","o","S","t","r","i","n","g">>,
      <<"v","a","l","u","e","O","f">>,
      <<"h","a","s","O","w","n","P","r","o","p","e","r","t","y">>,
      <<"_","_","p","r","o","t","o","_","_">> }

\* acc[lang] = type
SetProp(acc, lang, type) ==
    [k \in (DOMAIN acc) \cup {lang} |-> IF k = lang THEN type ELSE acc[k]]

\* the languages of an entry <<type, langs>> that accumulateToTypeMap
\* assigns: none when langs is empty, else those filter(Boolean) keeps
accumulateToTypeMap(entry) ==
    IF Len(entry[2]) > 0
    THEN {entry[2][i] : i \in {j \in 1..Len(entry[2]) : entry[2][j] # <<>>}}
    ELSE {}

Max(S) == CHOOSE x \in S : \A y \in S : x >= y

\* Object.entries(mapping).reduce(accumulateToTypeMap, {}): the own
\* properties of the flattened locale -> plural type object; of the entries
\* that assign a language the last one wins
langToTypeMap(mapping) ==
    LET assigned(i) == accumulateToTypeMap(mapping[i])
        langs == UNION {assigned(i) : i \in 1..Len(mapping)}
    IN  [lang \in langs |->
           mapping[Max({i \in 1..Len(mapping) : lang \in assigned(i)})][1]]

\* the property read langToPluralType[key]: a plural type name, an inherited
\* value or undefined
LangProp(langToPluralType, key) ==
    IF key \in DOMAIN langToPluralType
    THEN [t |-> "string", name |-> langToPluralType[key]]
    ELSE IF key \in ObjectPrototypeKeys
         THEN [t |-> "function", name |-> ""]
         ELSE [t |-> "undefined", name |-> ""]

\* the value is truthy: the operand of || that is returned
Truthy(v) == v.t = "function" \/ (v.t = "string" /\ v.name # "")

Min(S) == CHOOSE x \in S : \A y \in S : x <= y

\* locale.split(/-/, 1)[0]: the characters before the first "-"
SplitDash(locale) ==
    LET dashes == {i \in 1..Len(locale) : locale[i] = "-"} IN
    IF dashes = {} THEN locale ELSE SubSeq(locale, 1, Min(dashes) - 1)

\* a resolver without the retry with the language subtag
pluralTypeNameExact(rules, locale) ==
    LET langToPluralType == langToTypeMap(rules.pluralTypeToLanguages)
        exact == LangProp(langToPluralType, locale)
    IN  IF Truthy(exact) THEN exact
        ELSE LangProp(langToPluralType, <<"e", "n">>)

pluralTypeName(rules, locale) ==
    LET langToPluralType == langToTypeMap(rules.pluralTypeToLanguages)
        exact == LangProp(langToPluralType, locale)
        lang == LangProp(langToPluralType, SplitDash(locale))
    IN  IF Truthy(exact) THEN exact
        ELSE IF Truthy(lang) THEN lang
        ELSE LangProp(langToPluralType, <<"e", "n">>)

\* pluralRules.pluralTypes[name](count): calling what is not a function is a
\* TypeError.  (A plural type named like a member of Object.prototype is
\* not among the rule sets of this model.)
pluralTypeIndex(rules, locale, count) ==
    LET type == pluralTypeName(rules, locale) IN
    IF type.t = "string" /\ type.name \in DOMAIN rules.pluralTypes
    THEN [status |-> "ok", idx |-> ApplyGroups(rules.pluralTypes[type.name], count)]
    ELSE [status |-> "TypeError", idx |-> 0]

(***************************************************************************)
(* Strings.                                                                *)
(***************************************************************************)
\* str.substring(from - 1, to): the characters from .. to (1-based)
Sub(str, from, to) == SubSeq(str, from, to)

\* pat occurs in str at position i
OccursAt(str, i, pat) ==
    /\ i + Len(pat) - 1 <= Len(str)
    /\ \A k \in 1..Len(pat) : str[i + k - 1] = pat[k]

\* str.split(sep) for a non-empty sep: the pieces from position from on,
\* cut at the leftmost occurrences of sep that do not overlap
RECURSIVE SplitFrom(_, _, _)
SplitFrom(str, sep, from) ==
    LET found == {i \in from..Len(str) : OccursAt(str, i, sep)} IN
    IF found = {} THEN <<Sub(str, from, Len(str))>>
    ELSE <<Sub(str, from, Min(found) - 1)>>
         \o SplitFrom(str, sep, Min(found) + Len(sep))

Split(str, sep) == SplitFrom(str, sep, 1)

\* the white space and line terminators String.prototype.trim removes
WhiteSpace == {" ", "\t", "\n", "\r"}
LineTerminators == {"\n", "\r"}

\* str.trim(): from the first to the last character that is no white space
Trim(str) ==
    LET kept == {i \in 1..Len(str) : str[i] \notin WhiteSpace} IN
    IF kept = {} THEN <<>> ELSE Sub(str, Min(kept), Max(kept))

(***************************************************************************)
(* Token matcher.  A regular expression /PRE(.*?)SUF/g is the record of    *)
(* the sources of PRE and SUF.                                             *)
(***************************************************************************)
\* the characters escape() puts a backslash before
RegexSpecials ==
    {".", "*", "+", "?", "^", "$", "{", "}", "(", ")", "|", "[", "]", "\\"}

\* token.replace(/[.*+?^${}()|[\]\\]/g, '\\$&')
RECURSIVE escape(_)
escape(token) ==
    IF token = <<>> THEN <<>>
    ELSE (IF Head(token) \in RegexSpecials THEN <<"\\", Head(token)>>
          ELSE <<Head(token)>>) \o escape(Tail(token))

\* The atoms of a pattern source: a backslash makes the next character a
\* literal, an unescaped "." matches any character but a line terminator,
\* any other character stands for itself.
RECURSIVE Atoms(_)
Atoms(source) ==
    IF source = <<>> THEN <<>>
    ELSE IF Head(source) = "\\" /\ Len(source) >= 2
         THEN <<[any |-> FALSE, c |-> source[2]]>> \o Atoms(Tail(Tail(source)))
         ELSE <<[any |-> Head(source) = ".", c |-> Head(source)]>>
              \o Atoms(Tail(source))

AtomMatches(a, ch) == IF a.any THEN ch \notin LineTerminators ELSE ch = a.c

\* the atoms match str at position i
AtomsAt(str, i, atoms) ==
    /\ i + Len(atoms) - 1 <= Len(str)
    /\ \A k \in 1..Len(atoms) : AtomMatches(atoms[k], str[i + k - 1])

defaultTokenRegex == [pre |-> <<"%", "\\", "{">>, suf |-> <<"\\", "}">>]

\* the interpolation option of the constructor: absent, or an object with
\* the values of prefix and suffix (Undefined when it does not set them)
NoInterpolation == [t |-> "undefined", prefix |-> Undefined, suffix |-> Undefined]
Interpolation(prefix, suffix) == [t |-> "object", prefix |-> prefix, suffix |-> suffix]

\* a constructTokenRegex that tests the prefix alone
constructTokenRegexPrefix(options) ==
    LET prefix == IF options.prefix.t = "undefined" THEN Str(<<"%", "{">>)
                  ELSE options.prefix
        suffix == IF options.suffix.t = "undefined" THEN Str(<<"}">>)
                  ELSE options.suffix
    IN  IF prefix = Str(delimiter)
        THEN [status |-> "RangeError", regex |-> defaultTokenRegex]
        ELSE IF prefix.t # "string" \/ suffix.t # "string"
        THEN [status |-> "TypeError", regex |-> defaultTokenRegex]
        ELSE [status |-> "ok",
              regex |-> [pre |-> escape(prefix.s), suf |-> escape(suffix.s)]]

\* constructTokenRegex(options): the regular expression, the RangeError, or
\* the TypeError of escape() calling replace on what is not a string
constructTokenRegex(options) ==
    LET prefix == IF options.prefix.t = "undefined" THEN Str(<<"%", "{">>)
                  ELSE options.prefix
        suffix == IF options.suffix.t = "undefined" THEN Str(<<"}">>)
                  ELSE options.suffix
    IN  IF prefix = Str(delimiter) \/ suffix = Str(delimiter)
        THEN [status |-> "RangeError", regex |-> defaultTokenRegex]
        ELSE IF prefix.t # "string" \/ suffix.t # "string"
        THEN [status |-> "TypeError", regex |-> defaultTokenRegex]
        ELSE [status |-> "ok",
              regex |-> [pre |-> escape(prefix.s), suf |-> escape(suffix.s)]]

\* The ends j of the matches of regex that start at i: the suffix matches
\* at j and (.*?) spans the characters between the prefix and j.
MatchEnds(str, regex, i) ==
    LET pre == Atoms(regex.pre)
        suf == Atoms(regex.suf)
    IN  IF ~AtomsAt(str, i, pre) THEN {}
        ELSE { j \in (i + Len(pre))..(Len(str) + 1) :
                 /\ AtomsAt(str, j, suf)
                 /\ \A k \in (i + Len(pre))..(j - 1) : str[k] \notin LineTerminators }

NoMatch == [found |-> FALSE, start |-> 0, end |-> 0, name |-> <<>>]

\* the leftmost match with the group taking the longest run
ExecGreedy(str, regex, i) ==
    LET starts == {k \in i..(Len(str) + 1) : MatchEnds(str, regex, k) # {}} IN
    IF starts = {} THEN NoMatch
    ELSE LET k == Min(starts)
             j == Max(MatchEnds(str, regex, k))
         IN  [found |-> TRUE,
              start |-> k,
              end |-> j + Len(Atoms(regex.suf)),
              name |-> Sub(str, k + Len(Atoms(regex.pre)), j - 1)]

\* regex.exec(str) with lastIndex = i - 1: the leftmost match at or after i,
\* the lazy group taking the shortest run.
Exec(str, regex, i) ==
    LET starts == {k \in i..(Len(str) + 1) : MatchEnds(str, regex, k) # {}} IN
    IF starts = {} THEN NoMatch
    ELSE LET k == Min(starts)
             j == Min(MatchEnds(str, regex, k))
         IN  [found |-> TRUE,
              start |-> k,
              end |-> j + Len(Atoms(regex.suf)),
              name |-> Sub(str, k + Len(Atoms(regex.pre)), j - 1)]

(***************************************************************************)
(* Phrase transformer.                                                     *)
(***************************************************************************)
\* A substitutions argument is Undefined, Null, a number, or a plain object
\* [t |-> "object", props |-> own properties]; props maps names to values.
Subs(props) == [t |-> "object", s |-> <<>>, n |-> 0, props |-> props]
NumSubs(x) == [t |-> "number", s |-> <<>>, n |-> x, props |-> <<>>]
UndefinedSubs == [t |-> "undefined", s |-> <<>>, n |-> 0, props |-> <<>>]
NullSubs == [t |-> "null", s |-> <<>>, n |-> 0, props |-> <<>>]

smart_count == <<"s", "m", "a", "r", "t", "_", "c", "o", "u", "n", "t">>

\* what a plain object inherits under a name of Object.prototype
InheritedValue(key) ==
    IF key = <<"_","_","p","r","o","t","o","_","_">> THEN Obj
    ELSE IF key = <<"c","o","n","s","t","r","u","c","t","o","r">>
         THEN Fn(<<"O", "b", "j", "e", "c", "t">>)
         ELSE Fn(key)

\* the property read options[key] of a plain object with own properties props
GetProp(props, key) ==
    IF key \in DOMAIN props THEN props[key]
    ELSE IF key \in ObjectPrototypeKeys THEN InheritedValue(key)
    ELSE Undefined

\* String(v), the coercion String.prototype.replace applies to what the
\* replacer returns
JsString(v) ==
    CASE v.t = "string" -> v.s
      [] v.t = "number" -> NumberToString(v.n)
      [] v.t = "null" -> <<"n", "u", "l", "l">>
      [] v.t = "undefined" -> <<"u", "n", "d", "e", "f", "i", "n", "e", "d">>
      [] v.t = "object" -> <<"[", "o", "b", "j", "e", "c", "t", " ",
                             "O", "b", "j", "e", "c", "t", "]">>
      [] v.t = "function" ->
           <<"f", "u", "n", "c", "t", "i", "o", "n", " ">> \o v.s
           \o <<"(", ")", " ", "{", " ", "[", "n", "a", "t", "i", "v", "e", " ",
                "c", "o", "d", "e", "]", " ", "}">>

\* the replacer of transformPhrase: (expression, argument) => ...
replacer(props, expression, argument) ==
    LET replacement == GetProp(props, argument) IN
    IF TypeOf(replacement) = "undefined" THEN expression ELSE JsString(replacement)

\* result.replace(tokenRegex, replacer): copied is the first character not
\* yet copied to the output, i the position the next search starts at (one
\* past the match, and one more after an empty match)
RECURSIVE ReplaceFrom(_, _, _, _, _)
ReplaceFrom(str, regex, props, copied, i) ==
    LET m == Exec(str, regex, i) IN
    IF ~m.found THEN Sub(str, copied, Len(str))
    ELSE Sub(str, copied, m.start - 1)
         \o replacer(props, Sub(str, m.start, m.end - 1), m.name)
         \o ReplaceFrom(str, regex, props, m.end,
                        IF m.end = m.start THEN m.end + 1 ELSE m.end)

\* a replace that scans its own output once more
ReplaceTwice(str, regex, props) ==
    ReplaceFrom(ReplaceFrom(str, regex, props, 1, 1), regex, props, 1, 1)

\* phrase.replace(tokenRegex, replacer): one left-to-right scan of str
Replace(str, regex, props) == ReplaceFrom(str, regex, props, 1, 1)

\* texts[index] || texts[0]
FormAt(texts, index) ==
    IF index >= 0 /\ index < Len(texts) /\ texts[index + 1] # <<>>
    THEN texts[index + 1] ELSE texts[1]

Ok(v) == [status |-> "ok", value |-> v]
Throw(e) == [status |-> e, value |-> Undefined]

\* a transformer that selects a form for a smart_count of any type
TransformedAnyCount(phrase, substitutions, localeArg, regex, rules) ==
    IF substitutions.t \in {"undefined", "null"} THEN Throw("TypeError")
    ELSE
      LET props == IF substitutions.t = "number"
                   THEN [k \in {smart_count} |-> Num(substitutions.n)]
                   ELSE substitutions.props
          smartCount == GetProp(props, smart_count)
          plural == TypeOf(smartCount) \in {"number", "string"} /\ phrase.s # <<>>
          locale == IF localeArg.t = "undefined" THEN <<"e", "n">> ELSE localeArg.s
          index == IF plural THEN pluralTypeIndex(rules, locale,
                                   IF smartCount.t = "number" THEN smartCount.n ELSE 1)
                   ELSE [status |-> "ok", idx |-> 0]
          result == IF plural /\ index.status = "ok"
                    THEN Trim(FormAt(Split(phrase.s, delimiter), index.idx))
                    ELSE phrase.s
      IN  IF index.status # "ok" THEN Throw(index.status)
          ELSE Ok(Str(Replace(result, regex, props)))

\* transformPhrase from the normalisation of the substitutions on: the
\* plural form is selected, then interpolated.  The locale is a string or
\* Undefined (the parameter's default 'en' applies); reading smart_count of
\* null or undefined is a TypeError.
Transformed(phrase, substitutions, localeArg, regex, rules) ==
    IF substitutions.t \in {"undefined", "null"} THEN Throw("TypeError")
    ELSE
      LET props == IF substitutions.t = "number"
                   THEN [k \in {smart_count} |-> Num(substitutions.n)]
                   ELSE substitutions.props
          smartCount == GetProp(props, smart_count)
          plural == TypeOf(smartCount) = "number" /\ phrase.s # <<>>
          locale == IF localeArg.t = "undefined" THEN <<"e", "n">> ELSE localeArg.s
          index == IF plural THEN pluralTypeIndex(rules, locale, smartCount.n)
                   ELSE [status |-> "ok", idx |-> 0]
          result == IF plural /\ index.status = "ok"
                    THEN Trim(FormAt(Split(phrase.s, delimiter), index.idx))
                    ELSE phrase.s
      IN  IF index.status # "ok" THEN Throw(index.status)
          ELSE Ok(Str(Replace(result, regex, props)))

\* a transformPhrase without the return of the phrase when the
\* substitutions are undefined
transformPhraseNoFastPath(phrase, substitutions, localeArg, regex, rules) ==
    IF TypeOf(phrase) # "string" THEN Throw("TypeError")
    ELSE Transformed(phrase, substitutions, localeArg, regex, rules)

\* a transformPhrase that tests the substitutions before the phrase
transformPhraseLateCheck(phrase, substitutions, localeArg, regex, rules) ==
    IF substitutions.t = "undefined" THEN Ok(phrase)
    ELSE IF TypeOf(phrase) # "string" THEN Throw("TypeError")
    ELSE Transformed(phrase, substitutions, localeArg, regex, rules)

\* Polyglot.transformPhrase(phrase, substitutions, locale, tokenRegex,
\* pluralRules): the value returned or the error thrown
transformPhrase(phrase, substitutions, localeArg, regex, rules) ==
    IF TypeOf(phrase) # "string" THEN Throw("TypeError")
    ELSE IF substitutions.t = "undefined" THEN Ok(phrase)
    ELSE Transformed(phrase, substitutions, localeArg, regex, rules)

(***************************************************************************)
(* The Polyglot facade.                                                    *)
(***************************************************************************)
\* The phrases argument of the constructor, extend, unset and replace is a
\* sequence of entries <<key, value>> in the order Object.entries yields
\* them; a value is a JavaScript value or a nested mapping
\* [t |-> "object", entries |-> ...].
Mapping(entries) == [t |-> "object", s |-> <<>>, n |-> 0, entries |-> entries]

\* prefix ? `${prefix}.${key}` : key
PrefixedKey(prefix, key) == IF prefix # <<>> THEN prefix \o <<".">> \o key ELSE key

\* extend(morePhrases, prefix) on the dictionary dict: the dictionary after
\* the entries' forEach
RECURSIVE ExtendEntries(_, _, _)
ExtendEntries(dict, entries, prefix) ==
    IF entries = <<>> THEN dict
    ELSE LET key == PrefixedKey(prefix, Head(entries)[1])
             phrase == Head(entries)[2]
         IN  ExtendEntries(IF TypeOf(phrase) = "object"
                           THEN ExtendEntries(dict, phrase.entries, key)
                           ELSE SetProp(dict, key, phrase),
                           Tail(entries), prefix)

\* options.pluralRules: absent, or a rule set
NoRules == [t |-> "undefined", pluralTypes |-> <<>>, pluralTypeToLanguages |-> <<>>]
Rules(rules) ==
    [t |-> "object", pluralTypes |-> rules.pluralTypes,
     pluralTypeToLanguages |-> rules.pluralTypeToLanguages]

\* the options of new Polyglot(options)
Options(ph, loc, allow, handler, interp) ==
    [phrases |-> ph, locale |-> loc, allowMissing |-> allow,
     onMissingKey |-> handler, interpolation |-> interp, pluralRules |-> NoRules]

NoCall == [op |-> "none"]
\* What a call did: how it ended, the value returned, the number of calls of
\* this.warn and of this.onMissingKey it made, and the arguments the
\* missing-key handler was called with.
NoArgs == <<>>
Pending ==
    [status |-> "pending", value |-> Undefined, warned |-> 0, handled |-> 0, args |-> NoArgs]
Returned(v) ==
    [status |-> "ok", value |-> v, warned |-> 0, handled |-> 0, args |-> NoArgs]
Thrown(e) ==
    [status |-> e, value |-> Undefined, warned |-> 0, handled |-> 0, args |-> NoArgs]
Outcome(r) ==
    [status |-> r.status, value |-> r.value, warned |-> 0, handled |-> 0, args |-> NoArgs]

\* no instance exists before the constructor has run
FacadeInit ==
    /\ pc = "new"
    /\ phrases = <<>>
    /\ currentLocale = <<"e", "n">>
    /\ onMissingKey = "null"
    /\ tokenRegex = defaultTokenRegex
    /\ pluralRules = defaultPluralRules

\* the handler allowMissing stands for, where the caller's onMissingKey is
\* no function
MissingKeyHandlerAllowFirst(options) ==
    IF options.allowMissing THEN "transformPhrase"
    ELSE IF options.onMissingKey = "function" THEN "custom"
    ELSE "null"

\* this.onMissingKey: the caller's function ("custom"), the static
\* transformPhrase, or null; options.onMissingKey is given by its typeof
MissingKeyHandler(options) ==
    IF options.onMissingKey = "function" THEN "custom"
    ELSE IF options.allowMissing THEN "transformPhrase"
    ELSE "null"

\* the caller's rule set laid over the default one
PluralRulesMerged(options) ==
    IF options.pluralRules.t = "undefined" THEN defaultPluralRules
    ELSE [ pluralTypes |-> options.pluralRules.pluralTypes @@ defaultPluralTypes,
           pluralTypeToLanguages |->
               defaultPluralTypeToLanguages \o options.pluralRules.pluralTypeToLanguages ]

\* options.pluralRules || defaultPluralRules
PluralRulesOf(options) ==
    IF options.pluralRules.t = "undefined" THEN defaultPluralRules
    ELSE [ pluralTypes |-> options.pluralRules.pluralTypes,
           pluralTypeToLanguages |-> options.pluralRules.pluralTypeToLanguages ]

\* new Polyglot(options): the fields are set in the order of the
\* constructor; when constructTokenRegex throws, no instance results
Constructor(options) ==
    LET built == constructTokenRegex(options.interpolation) IN
    /\ pc = "new"
    /\ call' = [op |-> "new", options |-> options]
    /\ IF built.status = "ok"
       THEN /\ pc' = "ready"
            /\ phrases' = ExtendEntries(<<>>, options.phrases, <<>>)
            /\ currentLocale' = IF options.locale.t = "string" /\ options.locale.s # <<>>
                                THEN options.locale.s ELSE <<"e", "n">>
            /\ onMissingKey' = MissingKeyHandler(options)
            /\ tokenRegex' = built.regex
            /\ pluralRules' = PluralRulesOf(options)
            /\ ret' = Returned(Undefined)
       ELSE /\ pc' = "failed"
            /\ ret' = Thrown(built.status)
            /\ UNCHANGED <<phrases, currentLocale, onMissingKey, tokenRegex, pluralRules>>

\* the property read this.phrases[key] of the dictionary
PhraseOf(dict, key) == GetProp(dict, key)

\* the property read options._ (options is an object or a number)
DefaultOf(options) ==
    IF options.t = "object" THEN GetProp(options.props, <<"_">>) ELSE Undefined

\* the default first, the stored phrase second
ResolvePhraseDefaultFirst(dict, key, options) ==
    IF TypeOf(DefaultOf(options)) = "string" THEN DefaultOf(options)
    ELSE IF TypeOf(PhraseOf(dict, key)) = "string" THEN PhraseOf(dict, key)
    ELSE Undefined

\* the phrase of t: the stored string, else the string options._, else
\* none (Undefined)
ResolvePhrase(dict, key, options) ==
    IF TypeOf(PhraseOf(dict, key)) = "string" THEN PhraseOf(dict, key)
    ELSE IF TypeOf(DefaultOf(options)) = "string" THEN DefaultOf(options)
    ELSE Undefined

\* the arguments this.onMissingKey is called with
HandlerArgs(key, options, locale, regex, rules) ==
    <<Str(key), options, Str(locale), regex, rules>>

\* the key interpolated though no handler is configured
MissingKeyInterpolated(handler, key, options, locale, regex, rules, handlerResult) ==
    IF handler = "custom"
    THEN [Returned(handlerResult) EXCEPT
            !.handled = 1, !.args = HandlerArgs(key, options, locale, regex, rules)]
    ELSE [Outcome(transformPhrase(Str(key), options, Str(locale), regex, rules)) EXCEPT
            !.warned = IF handler = "null" THEN 1 ELSE 0,
            !.handled = IF handler = "null" THEN 0 ELSE 1,
            !.args = IF handler = "null" THEN NoArgs
                     ELSE HandlerArgs(key, options, locale, regex, rules)]

\* the handler's result passed through the phrase transformer
MissingKeyPostProcessed(handler, key, options, locale, regex, rules, handlerResult) ==
    IF handler = "custom"
    THEN [(IF TypeOf(handlerResult) = "string"
           THEN Outcome(transformPhrase(handlerResult, options, Str(locale), regex, rules))
           ELSE Returned(handlerResult)) EXCEPT
            !.handled = 1, !.args = HandlerArgs(key, options, locale, regex, rules)]
    ELSE IF handler = "transformPhrase"
    THEN [Outcome(transformPhrase(Str(key), options, Str(locale), regex, rules)) EXCEPT
            !.handled = 1, !.args = HandlerArgs(key, options, locale, regex, rules)]
    ELSE [Returned(Str(key)) EXCEPT !.warned = 1]

\* the key transformed with the default matcher and locale
MissingKeyDefaults(handler, key, options, locale, regex, rules, handlerResult) ==
    IF handler = "custom"
    THEN [Returned(handlerResult) EXCEPT
            !.handled = 1, !.args = HandlerArgs(key, options, locale, regex, rules)]
    ELSE IF handler = "transformPhrase"
    THEN [Outcome(transformPhrase(Str(key), options, Undefined,
                                  defaultTokenRegex, defaultPluralRules)) EXCEPT
            !.handled = 1, !.args = HandlerArgs(key, options, locale, regex, rules)]
    ELSE [Returned(Str(key)) EXCEPT !.warned = 1]

\* t without a phrase: the result of this.onMissingKey, which is the
\* caller's function returning handlerResult or the static transformPhrase,
\* else the key itself after a call of this.warn
MissingKey(handler, key, options, locale, regex, rules, handlerResult) ==
    IF handler = "custom"
    THEN [Returned(handlerResult) EXCEPT
            !.handled = 1, !.args = HandlerArgs(key, options, locale, regex, rules)]
    ELSE IF handler = "transformPhrase"
    THEN [Outcome(transformPhrase(Str(key), options, Str(locale), regex, rules)) EXCEPT
            !.handled = 1, !.args = HandlerArgs(key, options, locale, regex, rules)]
    ELSE [Returned(Str(key)) EXCEPT !.warned = 1]

\* a t that keeps the default phrase it used in the dictionary
TStoringDefault(key, optionsArg, handlerResult) ==
    LET options == IF optionsArg.t = "undefined" THEN Subs(<<>>) ELSE optionsArg
        phrase == ResolvePhrase(phrases, key, options)
    IN  /\ pc = "ready"
        /\ call' = [op |-> "t", key |-> key, options |-> optionsArg,
                    handlerResult |-> handlerResult]
        /\ ret' = IF TypeOf(phrase) = "string"
                  THEN Outcome(transformPhrase(phrase, options, Str(currentLocale),
                                               tokenRegex, pluralRules))
                  ELSE IF options.t = "null" THEN Thrown("TypeError")
                  ELSE MissingKey(onMissingKey, key, options, currentLocale,
                                  tokenRegex, pluralRules, handlerResult)
        /\ phrases' = IF TypeOf(phrase) = "string" THEN SetProp(phrases, key, phrase)
                      ELSE phrases
        /\ UNCHANGED <<pc, currentLocale, onMissingKey, tokenRegex, pluralRules>>

\* t(key, options) where options is absent (the default {}), an object, a
\* number or null (reading null._ is a TypeError); handlerResult is what a
\* configured onMissingKey function returns
T(key, optionsArg, handlerResult) ==
    LET options == IF optionsArg.t = "undefined" THEN Subs(<<>>) ELSE optionsArg
        phrase == ResolvePhrase(phrases, key, options)
    IN  /\ pc = "ready"
        /\ call' = [op |-> "t", key |-> key, options |-> optionsArg,
                    handlerResult |-> handlerResult]
        /\ ret' = IF TypeOf(phrase) = "string"
                  THEN Outcome(transformPhrase(phrase, options, Str(currentLocale),
                                               tokenRegex, pluralRules))
                  ELSE IF options.t = "null" THEN Thrown("TypeError")
                  ELSE MissingKey(onMissingKey, key, options, currentLocale,
                                  tokenRegex, pluralRules, handlerResult)
        /\ UNCHANGED facade

\* Boolean(v)
ToBoolean(v) ==
    CASE v.t = "string" -> v.s # <<>>
      [] v.t = "number" -> v.n # 0
      [] v.t \in {"undefined", "null"} -> FALSE
      [] OTHER -> TRUE

Bool(b) == [t |-> "boolean", s |-> <<>>, n |-> IF b THEN 1 ELSE 0]

\* has(key)
Has(key) ==
    /\ pc = "ready"
    /\ call' = [op |-> "has", key |-> key]
    /\ ret' = Returned(Bool(ToBoolean(PhraseOf(phrases, key))))
    /\ UNCHANGED facade

\* extend(morePhrases, prefix); prefix is <<>> when absent (or '')
Extend(morePhrases, prefix) ==
    /\ pc = "ready"
    /\ call' = [op |-> "extend", phrases |-> morePhrases, prefix |-> prefix]
    /\ phrases' = ExtendEntries(phrases, morePhrases, prefix)
    /\ ret' = Returned(Undefined)
    /\ UNCHANGED <<pc, currentLocale, onMissingKey, tokenRegex, pluralRules>>

\* delete obj[key]
DeleteProp(obj, key) == [k \in (DOMAIN obj) \ {key} |-> obj[k]]

\* unset(morePhrases, prefix) of a mapping on the dictionary dict: the
\* dictionary after the entries' forEach
RECURSIVE UnsetEntries(_, _, _)
UnsetEntries(dict, entries, prefix) ==
    IF entries = <<>> THEN dict
    ELSE LET key == PrefixedKey(prefix, Head(entries)[1])
             phrase == Head(entries)[2]
         IN  UnsetEntries(IF TypeOf(phrase) = "object"
                          THEN UnsetEntries(dict, phrase.entries, key)
                          ELSE DeleteProp(dict, key),
                          Tail(entries), prefix)

\* unset(morePhrases, prefix): morePhrases is a string value Str(key) or a
\* mapping Mapping(entries)
Unset(morePhrases, prefix) ==
    /\ pc = "ready"
    /\ call' = [op |-> "unset", phrases |-> morePhrases, prefix |-> prefix]
    /\ phrases' = IF morePhrases.t = "string" THEN DeleteProp(phrases, morePhrases.s)
                  ELSE UnsetEntries(phrases, morePhrases.entries, prefix)
    /\ ret' = Returned(Undefined)
    /\ UNCHANGED <<pc, currentLocale, onMissingKey, tokenRegex, pluralRules>>

\* clear()
Clear ==
    /\ pc = "ready"
    /\ call' = [op |-> "clear"]
    /\ phrases' = <<>>
    /\ ret' = Returned(Undefined)
    /\ UNCHANGED <<pc, currentLocale, onMissingKey, tokenRegex, pluralRules>>

\* replace(newPhrases): clear(), then extend(newPhrases)
ReplacePhrases(newPhrases) ==
    /\ pc = "ready"
    /\ call' = [op |-> "replace", phrases |-> newPhrases]
    /\ phrases' = ExtendEntries(<<>>, newPhrases, <<>>)
    /\ ret' = Returned(Undefined)
    /\ UNCHANGED <<pc, currentLocale, onMissingKey, tokenRegex, pluralRules>>

\* locale(newLocale): newLocale is absent (Undefined) or a string; the
\* locale is set when the argument is truthy, and the current one returned
Locale(newLocale) ==
    LET set == ToBoolean(newLocale) IN
    /\ pc = "ready"
    /\ call' = [op |-> "locale", newLocale |-> newLocale]
    /\ currentLocale' = IF set THEN newLocale.s ELSE currentLocale
    /\ ret' = Returned(Str(IF set THEN newLocale.s ELSE currentLocale))
    /\ UNCHANGED <<pc, phrases, onMissingKey, tokenRegex, pluralRules>>

(***************************************************************************)
(* The inputs of the calls of the static functions.                        *)
(***************************************************************************)
\* '%{smart_count} Name |||| %{smart_count} Names'
english ==
    <<"%", "{", "s", "m", "a", "r", "t", "_", "c", "o", "u", "n", "t", "}",
      " ", "N", "a", "m", "e", " ", "|", "|", "|", "|", " ", "%", "{", "s",
      "m", "a", "r", "t", "_", "c", "o", "u", "n", "t", "}", " ", "N", "a",
      "m", "e", "s">>

\* six forms, one per arabic category
sixForms ==
    <<"f", "0", " ", "|", "|", "|", "|", " ", "f", "1", " ", "|", "|", "|",
      "|", " ", "f", "2", " ", "|", "|", "|", "|", " ", "%", "{", "s", "m",
      "a", "r", "t", "_", "c", "o", "u", "n", "t", "}", " ", "f", "3", " ",
      "|", "|", "|", "|", " ", "f", "4", " ", "|", "|", "|", "|", " ", "f",
      "5">>

\* three forms, one per russian-like category
threeForms ==
    <<"%", "{", "s", "m", "a", "r", "t", "_", "c", "o", "u", "n", "t", "}",
      " ", "a", "|", "|", "|", "|", "%", "{", "s", "m", "a", "r", "t", "_",
      "c", "o", "u", "n", "t", "}", " ", "b", " ", "|", "|", "|", "|", " ",
      "c">>

RECURSIVE Flatten(_)
Flatten(seqs) == IF seqs = <<>> THEN <<>> ELSE Head(seqs) \o Flatten(Tail(seqs))

RECURSIVE Langs(_)
Langs(entries) ==
    IF entries = <<>> THEN {}
    ELSE {Head(entries)[2][i] : i \in 1..Len(Head(entries)[2])} \cup Langs(Tail(entries))

\* the locales of the default table
TableLocales == Langs(defaultPluralTypeToLanguages)

\* locales without an entry of their own: region subtags of table languages,
\* unknown languages, the empty string, names of Object.prototype
OtherLocales ==
    { <<"f", "r", "-", "F", "R">>,
      <<"e", "n", "-", "U", "S">>,
      <<"p", "t", "-", "B", "R">>,
      <<"r", "u", "-", "U", "A">>,
      <<"a", "r", "-", "E", "G">>,
      <<"b", "s">>,
      <<"s", "r">>,
      <<"x", "x">>,
      <<"x", "x", "-", "Y", "Y">>,
      <<>>,
      <<"c", "o", "n", "s", "t", "r", "u", "c", "t", "o", "r">>,
      <<"t", "o", "S", "t", "r", "i", "n", "g", "-", "x">>,
      <<"-", "f", "r">> }

Locales == TableLocales \cup OtherLocales

Counts == (0 - MaxNeg)..MaxCount

\* the locales the phrase transformer is called with
TransformLocales ==
    OtherLocales \cup { <<"e", "n">>, <<"f", "r">>, <<"p", "t">>, <<"r", "u">>, <<"a", "r">>,
                        <<"p", "t", "-", "b", "r">>, <<"h", "r", "-", "H", "R">> }

LocaleArgs == {Undefined} \cup {Str(l) : l \in TransformLocales}

\* A phrase is built of segments: literal text and placeholders %{name}.
Lit(text) == [ph |-> FALSE, text |-> text]
Ph(name) == [ph |-> TRUE, text |-> name]

Segments ==
    { Lit(<<"H", "i", ",", " ">>), Lit(<<"}", "!">>), Lit(<<"%">>),
      Ph(<<"n", "a", "m", "e">>), Ph(<<"p", "l", "a", "c", "e">>), Ph(<<>>),
      Ph(<<"c", "o", "n", "s", "t", "r", "u", "c", "t", "o", "r">>) }

SegSeqs == UNION {[1..k -> Segments] : k \in 0..MaxSegs}

SegText(seg) == IF seg.ph THEN <<"%", "{">> \o seg.text \o <<"}">> ELSE seg.text

PhraseOfSegs(segs) == Flatten([i \in 1..Len(segs) |-> SegText(segs[i])])

\* the phrases of the segment sequences, each with its segments
SegTable == {[phrase |-> PhraseOfSegs(segs), segs |-> segs] : segs \in SegSeqs}

\* the values a substitution may hold; Absent marks a name without property
Absent == [t |-> "absent", s |-> <<>>, n |-> 0]

NameValues ==
    { Absent, Undefined, Null, Num(7), Str(<<>>), Str(<<"S", "p", "i", "k", "e">>),
      Str(<<"%", "{", "p", "l", "a", "c", "e", "}">>) }
PlaceValues == { Absent, Str(<<"$", "1", " ", "$", "&">>) }
EmptyValues == { Absent, Str(<<"e">>) }

\* the object with the properties name, place and '' of the values given
PropsOf(nameVal, placeVal, emptyVal) ==
    LET all == (<<"n", "a", "m", "e">> :> nameVal) @@ (<<"p", "l", "a", "c", "e">> :> placeVal)
               @@ (<<>> :> emptyVal)
    IN  [k \in {x \in DOMAIN all : all[x] # Absent} |-> all[k]]

ObjSubs ==
    { Subs(PropsOf(a, b, c)) : a \in NameValues, b \in PlaceValues, c \in EmptyValues }

CountSubs ==
    {NumSubs(n) : n \in Counts}
    \cup {Subs([k \in {smart_count} |-> Num(n)]) : n \in Counts}

PluralPhrases == {Str(english), Str(sixForms), Str(threeForms)}

\* phrases with an empty or blank form: 'a||||', 'a|||| ' and '||||b'
emptySecond == <<"a", "|", "|", "|", "|">>
blankSecond == <<"a", "|", "|", "|", "|", " ">>
emptyFirst == <<"|", "|", "|", "|", "b">>
FormPhrases == {Str(emptySecond), Str(blankSecond), Str(emptyFirst)}

\* ' a |||| b ': forms within white space
padded == <<" ", "a", " ", "|", "|", "|", "|", " ", "b", " ">>

\* substitutions without a numeric smart_count
NonCountSubs ==
    { Subs(<<>>),
      Subs(smart_count :> Str(<<"1">>)),
      Subs(smart_count :> Null),
      Subs(<<"n", "a", "m", "e">> :> Str(<<"1">>)) }

SegPhrases == {Str(e.phrase) : e \in SegTable}

NonStrings == {Undefined, Null, Num(32), Obj}

Call(op, phrase, subs, locale) ==
    [op |-> op, phrase |-> phrase, subs |-> subs, locale |-> locale]

TransformCalls ==
    {Call("transformPhrase", p, s, l) :
        p \in PluralPhrases, s \in CountSubs, l \in LocaleArgs}
    \cup {Call("transformPhrase", p, s, Str(<<"e", "n">>)) :
            p \in SegPhrases, s \in ObjSubs}
    \cup {Call("transformPhrase", p, UndefinedSubs, l) :
            p \in PluralPhrases \cup SegPhrases, l \in LocaleArgs}
    \cup {Call("transformPhrase", p, s, l) :
            p \in FormPhrases, s \in {NumSubs(0), NumSubs(1), NumSubs(2)},
            l \in {Undefined, Str(<<"f", "r">>)}}
    \cup {Call("transformPhrase", p, s, l) :
            p \in {Str(english), Str(padded)},
            s \in NonCountSubs \cup {NumSubs(1), NumSubs(2)},
            l \in {Undefined, Str(<<"f", "r">>)}}
    \cup {Call("transformPhrase", p, s, l) :
            p \in SegPhrases, s \in {NumSubs(1), NumSubs(5)},
            l \in {Undefined, Str(<<"a", "r">>), Str(<<"r", "u">>),
                   Str(<<"c", "o", "n", "s", "t", "r", "u", "c", "t", "o", "r">>)}}
    \cup {Call("transformPhrase", p, s, l) :
            p \in NonStrings \cup {Str(english)},
            s \in {UndefinedSubs, NullSubs, NumSubs(1), Subs(<<>>)},
            l \in {Undefined, Str(<<"f", "r">>)}}

PluralCalls ==
    {Call("pluralTypeIndex", Undefined, NumSubs(n), Str(l)) :
        n \in Counts, l \in Locales}

(***************************************************************************)
(* The specification of the static functions: a call is chosen, then made. *)
(***************************************************************************)
InitPure ==
    /\ FacadeInit
    /\ call \in TransformCalls \cup PluralCalls
    /\ ret = Pending

TransformPhraseCall ==
    /\ call.op = "transformPhrase"
    /\ ret = Pending
    /\ ret' = Outcome(transformPhrase(call.phrase, call.subs, call.locale,
                                      defaultTokenRegex, defaultPluralRules))
    /\ UNCHANGED <<facade, call>>

PluralTypeIndexCall ==
    /\ call.op = "pluralTypeIndex"
    /\ ret = Pending
    /\ LET r == pluralTypeIndex(defaultPluralRules, call.locale.s, call.subs.n)
       IN  ret' = IF r.status = "ok" THEN Returned(Num(r.idx)) ELSE Thrown(r.status)
    /\ UNCHANGED <<facade, call>>

NextPure == TransformPhraseCall \/ PluralTypeIndexCall

SpecPure == InitPure /\ [][NextPure]_vars

(***************************************************************************)
(* The specification of the facade: an instance is constructed, then used. *)
(***************************************************************************)
hello == <<"h", "e", "l", "l", "o">>
hi_name == <<"h", "i", "_", "n", "a", "m", "e">>
count_name == <<"c", "o", "u", "n", "t", "_", "n", "a", "m", "e">>
empty_string == <<"e", "m", "p", "t", "y", "_", "s", "t", "r", "i", "n", "g">>
bogus_key == <<"b", "o", "g", "u", "s", "_", "k", "e", "y">>
welcomeName == <<"W", "e", "l", "c", "o", "m", "e", " ", "%", "{", "n", "a", "m", "e", "}">>
welcomeBars == <<"W", "e", "l", "c", "o", "m", "e", " ", "|", "n", "a", "m", "e", "|">>

\* 'Welcome |name|, how are you, |name|?'
welcomeTwice ==
    <<"W", "e", "l", "c", "o", "m", "e", " ", "|", "n", "a", "m", "e", "|",
      ",", " ", "h", "o", "w", " ", "a", "r", "e", " ", "y", "o", "u", ",",
      " ", "|", "n", "a", "m", "e", "|", "?">>
\* the text between its two placeholders
betweenNames == <<",", " ", "h", "o", "w", " ", "a", "r", "e", " ", "y", "o", "u", ",", " ">>
\* 'Welcome Robert, how are you, Robert?'
welcomeRobertTwice ==
    <<"W", "e", "l", "c", "o", "m", "e", " ", "R", "o", "b", "e", "r", "t",
      ",", " ", "h", "o", "w", " ", "a", "r", "e", " ", "y", "o", "u", ",",
      " ", "R", "o", "b", "e", "r", "t", "?">>
\* a key that is a phrase of two forms
one_or_more == <<"o", "n", "e", " ", "|", "|", "|", "|", " ", "m", "o", "r", "e">>
constructorKey == <<"c", "o", "n", "s", "t", "r", "u", "c", "t", "o", "r">>

\* the phrases the instances are constructed with
Dictionaries ==
    { <<>>,
      << <<hello, Str(<<"H", "e", "l", "l", "o">>)>>,
         <<hi_name, Str(<<"H", "i", ",", " ", "%", "{", "n", "a", "m", "e", "}">>)>>,
         <<count_name, Str(english)>>,
         <<empty_string, Str(<<>>)>> >> }

Interpolations ==
    { NoInterpolation,
      Interpolation(Undefined, Undefined),
      Interpolation(Str(<<"{", "{">>), Str(<<"}", "}">>)),
      Interpolation(Str(<<"|">>), Str(<<"|">>)),
      Interpolation(Str(<<"|", "|", "|">>), Str(<<"|", "|", "|", "|", "|">>)),
      Interpolation(Str(delimiter), Str(<<"}", "}">>)),
      Interpolation(Str(<<"{", "{">>), Str(delimiter)),
      Interpolation(Str(delimiter), Undefined),
      Interpolation(Undefined, Str(delimiter)),
      Interpolation(Num(1), Str(delimiter)),
      Interpolation(Num(1), Undefined),
      Interpolation(Str(<<"{", "{">>), Null) }

ConstructorOptions ==
    { Options(d, l, a, h, i) :
        d \in Dictionaries,
        l \in {Undefined, Str(<<"f", "r", "-", "F", "R">>)},
        a \in BOOLEAN,
        h \in {"undefined", "function", "string"},
        i \in Interpolations }

Keys ==
    {hello, hi_name, count_name, empty_string, bogus_key, welcomeName, welcomeBars,
     welcomeTwice, one_or_more, constructorKey}

name == <<"n", "a", "m", "e">>
Robert == Str(<<"R", "o", "b", "e", "r", "t">>)

TOptions ==
    { UndefinedSubs, NullSubs, NumSubs(0), NumSubs(2),
      Subs(name :> Robert),
      Subs((name :> Robert) @@ (<<"_">> :> Str(<<"C", "a", "n", " ", "%", "{", "n", "a", "m", "e", "}", "?">>))),
      Subs(<<"_">> :> Str(<<>>)),
      Subs((name :> Robert) @@ (betweenNames :> Str(<<"X">>))) }

\* what a caller's onMissingKey function returns
HandlerResults ==
    {Undefined, Str(<<"%", "{", "n", "a", "m", "e", "}", " ", "|", "|", "|", "|", " ", "H">>)}

Init ==
    /\ FacadeInit
    /\ call = NoCall
    /\ ret = Pending

Next ==
    \/ \E options \in ConstructorOptions : Constructor(options)
    \/ \E key \in Keys, options \in TOptions :
         \E h \in (IF onMissingKey = "custom" THEN HandlerResults ELSE {Undefined}) :
            T(key, options, h)
    \/ \E key \in Keys : Has(key)

Spec == Init /\ [][Next]_vars

(***************************************************************************)
(* The specification of the dictionary operations: an instance is          *)
(* constructed, then its phrases are extended, unset, replaced, cleared    *)
(* and read.                                                               *)
(***************************************************************************)
aKey == <<"a", "K", "e", "y">>
click == <<"c", "l", "i", "c", "k">>
sidebar == <<"s", "i", "d", "e", "b", "a", "r">>
nav == <<"n", "a", "v">>
header == <<"h", "e", "a", "d", "e", "r">>
log_in == <<"l", "o", "g", "_", "i", "n">>
sidebar_click == sidebar \o <<".">> \o click
nav_header_log_in == nav \o <<".">> \o header \o <<".">> \o log_in

\* the mappings and prefixes extend and unset are called with
firstTime == << <<aKey, Str(<<"F", "i", "r", "s", "t", " ", "t", "i", "m", "e">>)>> >>
secondTime == << <<aKey, Str(<<"S", "e", "c", "o", "n", "d", " ", "t", "i", "m", "e">>)>> >>
clickOnly == << <<click, Str(<<"C", "l", "i", "c", "k">>)>> >>
nested ==
    << <<sidebar, Mapping(clickOnly)>>,
       <<nav, Mapping(<< <<header, Mapping(<< <<log_in, Str(<<"L", "o", "g", " ", "I", "n">>)>> >>)>> >>)>> >>
underEmptyKey == << <<<<>>, Mapping(<< <<click, Str(<<"H", "o", "v", "e", "r">>)>> >>)>> >>

PhraseArgs ==
    { [phrases |-> firstTime, prefix |-> <<>>],
      [phrases |-> secondTime, prefix |-> <<>>],
      [phrases |-> clickOnly, prefix |-> sidebar],
      [phrases |-> nested, prefix |-> <<>>],
      [phrases |-> underEmptyKey, prefix |-> <<>>] }

DictConstructorOptions ==
    { Options(d, Undefined, FALSE, "undefined", NoInterpolation) : d \in {<<>>, nested} }

DictKeys ==
    { aKey, click, sidebar_click, nav_header_log_in, <<".">> \o click,
      header \o <<".">> \o log_in, constructorKey }

NextDict ==
    \/ \E options \in DictConstructorOptions : Constructor(options)
    \/ \E a \in PhraseArgs : Extend(a.phrases, a.prefix)
    \/ \E a \in PhraseArgs : Unset(Mapping(a.phrases), a.prefix)
    \/ \E key \in DictKeys : Unset(Str(key), <<>>)
    \/ Clear
    \/ \E a \in PhraseArgs : ReplacePhrases(a.phrases)
    \/ \E key \in DictKeys : T(key, UndefinedSubs, Undefined)
    \/ \E key \in DictKeys : Has(key)

SpecDict == Init /\ [][NextDict]_vars

(***************************************************************************)
(* The specification of the locale and the plural rules of an instance.    *)
(***************************************************************************)
test_phrase == <<"t", "e", "s", "t", "_", "p", "h", "r", "a", "s", "e">>
\* '%{smart_count} form zero |||| %{smart_count} form one'
formZeroOrOne ==
    <<"%", "{", "s", "m", "a", "r", "t", "_", "c", "o", "u", "n", "t", "}",
      " ", "f", "o", "r", "m", " ", "z", "e", "r", "o", " ", "|", "|", "|",
      "|", " ", "%", "{", "s", "m", "a", "r", "t", "_", "c", "o", "u", "n",
      "t", "}", " ", "f", "o", "r", "m", " ", "o", "n", "e">>
testPhrases == << <<test_phrase, Str(formZeroOrOne)>> >>

x1 == <<"x", "1">>
x2 == <<"x", "2">>

RuleOptions == {NoRules, Rules(customPluralRules), Rules(swappedPluralRules)}

LocaleConstructorOptions ==
    { [Options(testPhrases, l, FALSE, "undefined", NoInterpolation)
         EXCEPT !.pluralRules = r] :
        l \in {Undefined, Str(<<>>), Str(x1), Str(<<"r", "u">>)}, r \in RuleOptions }

NewLocales ==
    { Undefined, Str(<<>>), Str(x1), Str(x2), Str(<<"f", "r">>), Str(<<"r", "u">>),
      Str(<<"e", "s">>) }

LocaleCounts == {0, 1, 2, 5}

NextLocale ==
    \/ \E options \in LocaleConstructorOptions : Constructor(options)
    \/ \E newLocale \in NewLocales : Locale(newLocale)
    \/ \E n \in LocaleCounts : T(test_phrase, NumSubs(n), Undefined)

SpecLocale == Init /\ [][NextLocale]_vars

(***************************************************************************)
(* Properties.                                                             *)
(***************************************************************************)
en == <<"e", "n">>
ar == <<"a", "r">>
fr == <<"f", "r">>
frFR == <<"f", "r", "-", "F", "R">>

\* a call of the static function op has been made
Made(op) == call.op = op /\ ret.status # "pending"

\* the substitutions {smart_count: n}
SmartCount(n) == Subs([k \in {smart_count} |-> Num(n)])

\* C1: transformPhrase(p, undefined, l) returns the string p itself, for
\* every string phrase p and every locale l, also when p holds '||||' or
\* placeholders.
C1_IdentityWithoutSubstitutions ==
    (Made("transformPhrase") /\ TypeOf(call.phrase) = "string"
        /\ call.subs = UndefinedSubs)
    => (ret.status = "ok" /\ ret.value = call.phrase)

C1_Witness ==
    /\ Made("transformPhrase")
    /\ call.phrase = Str(english)
    /\ call.subs = UndefinedSubs
    /\ call.locale = Str(fr)
    /\ ret.value = Str(english)

\* C2: with locale 'en' and the substitutions {smart_count: n} the phrase
\* '%{smart_count} Name |||| %{smart_count} Names' yields '<n> Name' when
\* n = 1 and '<n> Names' for every other integer n, 0 and the negative ones
\* included.
C2_EnglishSingularIffOne ==
    \A n \in Counts :
        (Made("transformPhrase") /\ call.phrase = Str(english)
            /\ call.subs = SmartCount(n) /\ call.locale = Str(en))
        => /\ ret.status = "ok"
           /\ ret.value = Str(NumberToString(n)
                              \o (IF n = 1 THEN <<" ", "N", "a", "m", "e">>
                                  ELSE <<" ", "N", "a", "m", "e", "s">>))

C2_Witness ==
    /\ Made("transformPhrase")
    /\ call.phrase = Str(english)
    /\ call.subs = SmartCount(0 - 1)
    /\ call.locale = Str(en)
    /\ ret.value = Str(<<"-", "1", " ", "N", "a", "m", "e", "s">>)

\* the arabic category of a count n >= 0, from the table of the categories
ArabicCategory(n) ==
    IF n < 3 THEN n
    ELSE IF n % 100 \in 3..10 THEN 3
    ELSE IF n % 100 >= 11 THEN 4
    ELSE 5

\* the forms of sixForms after the trim and the interpolation of count n
SixFormsText(i, n) ==
    IF i = 3 THEN NumberToString(n) \o <<" ", "f", "3">>
    ELSE <<"f", Digit(i)>>

\* C3: for every count n >= 0 the arabic function returns n when n < 3, 3
\* when n mod 100 is in 3..10, 4 when n mod 100 >= 11 and 5 otherwise; with
\* locale 'ar' the counts 0, 1, 2, 3, 11, 102 select the forms 0 .. 5 of a
\* phrase of six forms.
C3_ArabicCategories ==
    /\ (Made("pluralTypeIndex") /\ call.locale = Str(ar) /\ call.subs.n >= 0)
       => ret = Returned(Num(ArabicCategory(call.subs.n)))
    /\ \A i \in 0..5 :
         LET n == <<0, 1, 2, 3, 11, 102>>[i + 1] IN
         (Made("transformPhrase") /\ call.phrase = Str(sixForms)
             /\ call.locale = Str(ar) /\ call.subs \in {NumSubs(n), SmartCount(n)})
         => ret = Returned(Str(SixFormsText(i, n)))

C3_Witness ==
    /\ Made("transformPhrase")
    /\ call.phrase = Str(sixForms)
    /\ call.locale = Str(ar)
    /\ call.subs = NumSubs(102)
    /\ ret = Returned(Str(<<"f", "5">>))

\* the locales of the russian-like families in the default table
RussianLocales ==
    { <<"r", "u">>,
      <<"r", "u", "-", "R", "U">>,
      <<"h", "r">>,
      <<"h", "r", "-", "H", "R">>,
      <<"b", "s", "-", "L", "a", "t", "n", "-", "B", "A">>,
      <<"b", "s", "-", "C", "y", "r", "l", "-", "B", "A">>,
      <<"s", "r", "l", "-", "R", "S">>,
      <<"s", "r", "-", "R", "S">> }

\* the russian-like category of a count n >= 0
RussianCategory(n) ==
    IF n % 10 = 1 /\ n % 100 # 11 THEN 0
    ELSE IF n % 10 \in 2..4 /\ n % 100 \notin 12..14 THEN 1
    ELSE 2

\* C4: for every count n >= 0 and each of the locales 'ru', 'ru-RU', 'hr',
\* 'hr-HR', 'bs-Latn-BA', 'bs-Cyrl-BA', 'srl-RS', 'sr-RS' the category is 0
\* when n mod 10 = 1 and n mod 100 # 11, else 1 when n mod 10 is in 2..4 and
\* n mod 100 is not in 12..14, else 2.
C4_RussianCategories ==
    (Made("pluralTypeIndex") /\ call.locale.s \in RussianLocales /\ call.subs.n >= 0)
    => ret = Returned(Num(RussianCategory(call.subs.n)))

C4_Witness ==
    /\ Made("pluralTypeIndex")
    /\ call.locale = Str(<<"s", "r", "-", "R", "S">>)
    /\ call.subs.n = 112
    /\ ret = Returned(Num(2))

\* lang is what stands before the first '-' of locale
IsLanguageOf(lang, locale) ==
    /\ Len(locale) > Len(lang)
    /\ SubSeq(locale, 1, Len(lang)) = lang
    /\ locale[Len(lang) + 1] = "-"
    /\ \A i \in 1..Len(lang) : lang[i] # "-"

\* C5: a locale without an entry of its own in the flattened table whose
\* part before the first '-' has one gives, for every phrase and count, the
\* result that part gives; 'fr-FR' selects the singular form for count 0 as
\* 'fr' does.
C5_RegionSubtagFallback ==
    /\ \A lang \in TableLocales :
         (ret.status # "pending" /\ call.locale.t = "string"
             /\ call.locale.s \notin TableLocales /\ IsLanguageOf(lang, call.locale.s))
         => IF call.op = "transformPhrase"
            THEN ret = Outcome(transformPhrase(call.phrase, call.subs, Str(lang),
                                               defaultTokenRegex, defaultPluralRules))
            ELSE LET r == pluralTypeIndex(defaultPluralRules, lang, call.subs.n)
                 IN  r.status = "ok" /\ ret = Returned(Num(r.idx))
    /\ (Made("transformPhrase") /\ call.phrase = Str(english)
           /\ call.locale = Str(frFR) /\ call.subs = SmartCount(0))
       => ret = Returned(Str(<<"0", " ", "N", "a", "m", "e">>))

C5_Witness ==
    /\ Made("transformPhrase")
    /\ call.phrase = Str(english)
    /\ call.locale = Str(frFR)
    /\ call.subs = SmartCount(0)
    /\ ret = Returned(Str(<<"0", " ", "N", "a", "m", "e">>))

\* some language of the table stands before the first '-' of locale
HasLanguageEntry(locale) == \E lang \in TableLocales : IsLanguageOf(lang, locale)

\* C6: resolution takes the exact entry, then the entry of the language
\* prefix, then that of 'en': a locale with neither entry gets the category
\* function of 'en', and with the default table no locale string makes the
\* resolution fail.
C6_ResolutionNeverFails ==
    Made("pluralTypeIndex")
    => /\ ret.status = "ok"
       /\ (call.locale.s \notin TableLocales /\ ~HasLanguageEntry(call.locale.s))
          => ret = Returned(Num(ApplyGroups(defaultPluralTypes.german, call.subs.n)))

bs == <<"b", "s">>
sr == <<"s", "r">>
ru == <<"r", "u">>
hr == <<"h", "r">>

\* C7 as stated: each of 'ru', 'bs', 'sr' and 'hr' resolves to the
\* russian-like function.
C7_BareLanguagesRussian ==
    (Made("pluralTypeIndex") /\ call.locale.s \in {ru, bs, sr, hr})
    => ret = Returned(Num(russianPluralGroups(call.subs.n)))

\* C7: 'ru' and 'hr' resolve to the russian-like function, and so do
\* 'bs-Latn-BA', 'bs-Cyrl-BA', 'srl-RS' and 'sr-RS'; 'bs' and 'sr' have no
\* entry of their own and resolve to the german-like function of 'en'.
C7_RussianLikeLocales ==
    /\ (Made("pluralTypeIndex") /\ call.locale.s \in RussianLocales)
       => ret = Returned(Num(russianPluralGroups(call.subs.n)))
    /\ (Made("pluralTypeIndex") /\ call.locale.s \in {bs, sr})
       => ret = Returned(Num(germanPluralGroups(call.subs.n)))

C7_Witness ==
    /\ Made("pluralTypeIndex")
    /\ call.locale = Str(bs)
    /\ call.subs.n = 5
    /\ ret = Returned(Num(1))

\* C8: transformPhrase throws a TypeError and returns nothing whenever the
\* phrase is not a string, whatever the other arguments are.
C8_NonStringPhraseThrows ==
    (Made("transformPhrase") /\ TypeOf(call.phrase) # "string")
    => ret = Thrown("TypeError")

C8_Witness ==
    /\ Made("transformPhrase")
    /\ call.phrase = Num(32)
    /\ call.subs = UndefinedSubs
    /\ ret = Thrown("TypeError")

\* the prefix or the suffix of the interpolation option is '||||'
Reserved(interpolation) ==
    interpolation.prefix = Str(delimiter) \/ interpolation.suffix = Str(delimiter)

\* C9: the token matcher fails with a RangeError exactly when the prefix or
\* the suffix is '||||', and it fails in the constructor: no instance
\* results, so no call of t meets the error.
C9_RangeErrorAtConstruction ==
    /\ call.op = "new"
       => /\ ret.status = "RangeError" <=> Reserved(call.options.interpolation)
          /\ ret.status = "RangeError" => pc = "failed"
    /\ call.op = "t" => ret.status # "RangeError"
    /\ pc = "ready" => /\ tokenRegex.pre # escape(delimiter)
                       /\ tokenRegex.suf # escape(delimiter)

C9_Witness ==
    /\ call.op = "new"
    /\ call.options.interpolation = Interpolation(Str(<<"{", "{">>), Str(delimiter))
    /\ ret = Thrown("RangeError")
    /\ pc = "failed"

\* the string form of a substitution value
StringForm(v) ==
    CASE v.t = "string" -> v.s
      [] v = Num(7) -> <<"7">>
      [] v = Null -> <<"n", "u", "l", "l">>

\* what the interpolation leaves of a segment: the value of a placeholder
\* whose name has a defined value, the text of any other segment
Interpolated(seg, props) ==
    IF seg.ph /\ seg.text \in DOMAIN props /\ props[seg.text] # Undefined
    THEN StringForm(props[seg.text])
    ELSE SegText(seg)

\* C10: every placeholder whose name has a defined value in the
\* substitutions, the empty string included, is replaced by the string form
\* of the value, every placeholder whose name is absent or undefined stays
\* as its text, and all the occurrences of a name are replaced.
C10_InterpolationByDefinedValue ==
    \A e \in SegTable :
        (Made("transformPhrase") /\ call.phrase = Str(e.phrase) /\ call.subs \in ObjSubs)
        => ret = Returned(Str(Flatten([i \in 1..Len(e.segs) |->
                                         Interpolated(e.segs[i], call.subs.props)])))

place == <<"p", "l", "a", "c", "e">>
placeToken == Str(<<"%", "{", "p", "l", "a", "c", "e", "}">>)
OwnNamesOnly(segs) ==
    \A i \in 1..Len(segs) : segs[i].ph => segs[i].text \notin ObjectPrototypeKeys

\* C11: interpolation is one pass over the phrase: where the value of name
\* is the text '%{place}', every %{name} of the phrase becomes the literal
\* text '%{place}', which is not expanded again even when the substitutions
\* define place as well.
C11_SinglePass ==
    (/\ Made("transformPhrase")
     /\ call.subs.t = "object"
     /\ <<"n", "a", "m", "e">> \in DOMAIN call.subs.props
     /\ call.subs.props[<<"n", "a", "m", "e">>] = placeToken)
    => \A e \in SegTable :
        (call.phrase = Str(e.phrase) /\ OwnNamesOnly(e.segs))
        => ret = Returned(Str(Flatten([i \in 1..Len(e.segs) |->
                     IF e.segs[i] = Ph(<<"n", "a", "m", "e">>) THEN placeToken.s
                     ELSE Interpolated(e.segs[i], call.subs.props)])))

\* transformPhrase('%{name}', {name: '%{place}', place: '$1 $&'}) has
\* returned '%{place}'
C11_Witness ==
    /\ Made("transformPhrase")
    /\ call.phrase = Str(<<"%", "{", "n", "a", "m", "e", "}">>)
    /\ call.subs \in ObjSubs
    /\ DOMAIN call.subs.props = {<<"n", "a", "m", "e">>, place}
    /\ call.subs.props[<<"n", "a", "m", "e">>] = placeToken
    /\ call.subs.props[place] = Str(<<"$", "1", " ", "$", "&">>)
    /\ ret = Returned(placeToken)

\* the matcher of new Polyglot({interpolation: {prefix: '|', suffix: '|'}})
barsRegex == [pre |-> <<"\\", "|">>, suf |-> <<"\\", "|">>]

\* t was called with an options object that has no default phrase and
\* gives name the value 'Robert'
NamesRobert ==
    /\ call.op = "t"
    /\ call.options.t = "object"
    /\ name \in DOMAIN call.options.props
    /\ call.options.props[name] = Robert
    /\ <<"_">> \notin DOMAIN call.options.props

\* C12: with prefix and suffix both '|', the key
\* 'Welcome |name|, how are you, |name|?' transformed with name = 'Robert'
\* is 'Welcome Robert, how are you, Robert?': the delimiters pair left to
\* right, and the text between the two placeholders is no placeholder name,
\* even when the substitutions have a property of that name.
C12_SameDelimiterPairs ==
    (NamesRobert /\ call.key = welcomeTwice /\ tokenRegex = barsRegex
        /\ onMissingKey = "transformPhrase")
    => (ret.status = "ok" /\ ret.value = Str(welcomeRobertTwice))

\* the call was made with substitutions that define the text between the
\* placeholders as a name
C12_Witness ==
    /\ NamesRobert /\ call.key = welcomeTwice /\ tokenRegex = barsRegex
    /\ onMissingKey = "transformPhrase"
    /\ betweenNames \in DOMAIN call.options.props
    /\ ret.value = Str(welcomeRobertTwice)

\* the dictionary holds a string phrase for the key of the call
StoredString == call.key \in DOMAIN phrases /\ phrases[call.key].t = "string"

\* the options of the call carry a string under '_'
StringDefault ==
    /\ call.options.t = "object"
    /\ <<"_">> \in DOMAIN call.options.props
    /\ call.options.props[<<"_">>].t = "string"

\* t was called with options absent, an object or a number, and found
\* neither a stored string phrase nor a string default
MissingCall ==
    /\ call.op = "t"
    /\ call.options.t \in {"undefined", "object", "number"}
    /\ ~StoredString
    /\ ~StringDefault

\* the options t works with: {} when the argument is absent
OptionsOfCall == IF call.options.t = "undefined" THEN Subs(<<>>) ELSE call.options

\* C13: when t finds no string phrase and no string default and no
\* missing-key handler is configured, it returns the key itself, not
\* interpolated, calls warn once, calls no handler and throws nothing.
C13_MissingKeyReturnsKey ==
    (MissingCall /\ onMissingKey = "null")
    => ret = [Returned(Str(call.key)) EXCEPT !.warned = 1]

\* t('Welcome %{name}', {name: 'Robert'}) without a handler has returned the
\* key with its placeholder
C13_Witness ==
    /\ MissingCall /\ onMissingKey = "null"
    /\ NamesRobert /\ call.key = welcomeName
    /\ ret.value = Str(welcomeName) /\ ret.warned = 1

\* C14: when the key is missing, no string default is given and a
\* missing-key function is configured, t calls it exactly once, with the
\* key, the options, the current locale, the token matcher and the rule
\* set, returns what it returned unchanged, and does not call warn.
C14_HandlerResultVerbatim ==
    (MissingCall /\ onMissingKey = "custom")
    => /\ ret.status = "ok"
       /\ ret.handled = 1
       /\ ret.args = <<Str(call.key), OptionsOfCall, Str(currentLocale), tokenRegex, pluralRules>>
       /\ ret.value = call.handlerResult
       /\ ret.warned = 0

\* the handler returned a phrase of two forms with a placeholder, t was
\* called with a value for the placeholder, and the phrase came back as it
\* was
C14_Witness ==
    /\ MissingCall /\ onMissingKey = "custom"
    /\ NamesRobert
    /\ call.handlerResult.t = "string" /\ Len(call.handlerResult.s) > 1
    /\ ret.value = call.handlerResult
    /\ ret.handled = 1

\* C15: on an instance constructed with allowMissing and no onMissingKey
\* function, t on a missing key without default returns what transformPhrase
\* makes of the key text with the options, the current locale, the
\* instance's matcher and rule set; 'Welcome %{name}' with name = 'Robert'
\* gives 'Welcome Robert'.
C15_AllowMissingTransformsKey ==
    (MissingCall /\ onMissingKey = "transformPhrase")
    => /\ LET r == transformPhrase(Str(call.key), OptionsOfCall, Str(currentLocale),
                                    tokenRegex, pluralRules)
          IN  ret.status = r.status /\ ret.value = r.value
       /\ (NamesRobert /\ call.key = welcomeName /\ tokenRegex = defaultTokenRegex)
            => ret.value = Str(<<"W", "e", "l", "c", "o", "m", "e", " ",
                                 "R", "o", "b", "e", "r", "t">>)
       /\ (call.key = one_or_more /\ call.options = NumSubs(0))
            => ret.value = Str(IF currentLocale = <<"f", "r", "-", "F", "R">>
                               THEN <<"o", "n", "e">> ELSE <<"m", "o", "r", "e">>)

\* the key of two forms was transformed under the locale 'fr-FR', where
\* the count 0 takes the first form
C15_Witness ==
    /\ MissingCall /\ onMissingKey = "transformPhrase"
    /\ call.key = one_or_more /\ call.options = NumSubs(0)
    /\ currentLocale = <<"f", "r", "-", "F", "R">>
    /\ ret.value = Str(<<"o", "n", "e">>)

\* C16: the first t on a missing key after new Polyglot(options) uses the
\* function options.onMissingKey whenever it is a function, allowMissing or
\* not; it uses the transformer on the key only when allowMissing is set
\* and onMissingKey is no function; with neither there is no handler and
\* the key comes back after a warn.
C16_HandlerPrecedence ==
    [][(call.op = "new" /\ pc = "ready" /\ MissingCall')
        => IF call.options.onMissingKey = "function"
           THEN /\ ret'.handled = 1 /\ ret'.warned = 0
                /\ ret'.value = call'.handlerResult
                /\ call'.handlerResult \in HandlerResults
           ELSE IF call.options.allowMissing
           THEN /\ ret'.handled = 1 /\ ret'.warned = 0
                /\ ret'.value = transformPhrase(Str(call'.key), OptionsOfCall',
                                    Str(currentLocale'), tokenRegex', pluralRules').value
           ELSE /\ ret'.handled = 0 /\ ret'.warned = 1
                /\ ret'.value = Str(call'.key)]_vars

\* an instance was constructed with both allowMissing and an onMissingKey
\* function, and its handler is the function
C16_Witness ==
    /\ call.op = "new" /\ pc = "ready"
    /\ call.options.allowMissing /\ call.options.onMissingKey = "function"
    /\ onMissingKey = "custom"

\* C17: t uses the stored string phrase of the key whatever options._ is;
\* without one it uses a string options._, the empty string included, as the
\* phrase and transforms it with the options; the missing-key handler and
\* the key fallback are reached only when there is neither.
C17_ResolutionPriority ==
    call.op = "t" =>
        /\ StoredString
            => ret = Outcome(transformPhrase(phrases[call.key], OptionsOfCall,
                                Str(currentLocale), tokenRegex, pluralRules))
        /\ (StoredString /\ call.key = hello /\ call.options.t = "object")
            => ret.value = Str(<<"H", "e", "l", "l", "o">>)
        /\ (~StoredString /\ StringDefault)
            => ret = Outcome(transformPhrase(call.options.props[<<"_">>], call.options,
                                Str(currentLocale), tokenRegex, pluralRules))
        /\ (~StoredString /\ StringDefault /\ call.options.props[<<"_">>] = Str(<<>>))
            => ret.value = Str(<<>>)
        /\ (ret.handled > 0 \/ ret.warned > 0) => (~StoredString /\ ~StringDefault)

\* t('hello', {_: 'Can %{name}?', name: 'Robert'}) has returned the stored
\* 'Hello'
C17_Witness ==
    /\ call.op = "t" /\ StoredString /\ StringDefault
    /\ call.key = hello
    /\ ret = Returned(Str(<<"H", "e", "l", "l", "o">>))

\* t('bogus_key', {_: ''}) has returned ''
C17_WitnessEmptyDefault ==
    /\ call.op = "t" /\ ~StoredString /\ StringDefault
    /\ call.options.props[<<"_">>] = Str(<<>>)
    /\ ret = Returned(Str(<<>>))

\* C18: for a key whose stored phrase is the empty string, t returns ''
\* without handler call or warn, and has returns false; has and the lookup
\* of t disagree about a key exactly when its stored phrase is the empty
\* string.
C18_PredicatesDifferOnEmptyString ==
    /\ (call.op = "t" /\ StoredString /\ phrases[call.key] = Str(<<>>)
            /\ call.options.t # "null")
        => ret = Returned(Str(<<>>))
    /\ call.op = "has"
        => /\ ret.status = "ok"
           /\ ((ret.value = Bool(TRUE)) # StoredString)
                <=> (StoredString /\ phrases[call.key] = Str(<<>>))

\* the same for the keys that name no member of Object.prototype
C18_OwnKeys ==
    /\ (call.op = "t" /\ StoredString /\ phrases[call.key] = Str(<<>>)
            /\ call.options.t # "null")
        => ret = Returned(Str(<<>>))
    /\ (call.op = "has" /\ call.key \notin ObjectPrototypeKeys)
        => /\ ret.status = "ok"
           /\ ((ret.value = Bool(TRUE)) # StoredString)
                <=> (StoredString /\ phrases[call.key] = Str(<<>>))

\* the locale transformPhrase works with: 'en' when the argument is absent
LocaleOfCall == IF call.locale = Undefined THEN en ELSE call.locale.s

\* C19: transformPhrase(p, n, l) equals transformPhrase(p, {smart_count: n},
\* l) for every phrase p, integer n and locale l, and with the integer
\* shorthand every placeholder other than smart_count stays as it is in
\* the phrase.
C19_NumberShorthand ==
    (Made("transformPhrase") /\ call.subs.t = "number")
    => /\ ret = Outcome(transformPhrase(call.phrase, SmartCount(call.subs.n), call.locale,
                                        defaultTokenRegex, defaultPluralRules))
       /\ \A e \in SegTable :
            (call.phrase = Str(e.phrase) /\ ret.status = "ok")
            => ret.value = Str(Trim(e.phrase))

\* the same for the phrases whose placeholders name no member of
\* Object.prototype
C19_OwnNames ==
    (Made("transformPhrase") /\ call.subs.t = "number")
    => /\ ret = Outcome(transformPhrase(call.phrase, SmartCount(call.subs.n), call.locale,
                                        defaultTokenRegex, defaultPluralRules))
       /\ \A e \in SegTable :
            (call.phrase = Str(e.phrase) /\ ret.status = "ok" /\ OwnNamesOnly(e.segs))
            => ret.value = Str(Trim(e.phrase))

\* the number of forms of the phrases with plural forms
NumForms(p) ==
    CASE p = Str(english) -> 2
      [] p = Str(threeForms) -> 3
      [] p = Str(sixForms) -> 6

\* their first form after the trim and the interpolation of count n
FirstForm(p, n) ==
    CASE p = Str(english) -> NumberToString(n) \o <<" ", "N", "a", "m", "e">>
      [] p = Str(threeForms) -> NumberToString(n) \o <<" ", "a">>
      [] p = Str(sixForms) -> <<"f", "0">>

\* the call counts with a number or with {smart_count: n}
CountOfCall == IF call.subs.t = "number" THEN call.subs.n ELSE call.subs.props[smart_count].n

\* C20: when the category of the count under the locale is no index of a
\* form of the phrase (too large or negative), transformPhrase returns the
\* first form, interpolated, and throws nothing; a phrase without '||||'
\* called with a count yields its one form, trimmed and interpolated,
\* whatever the count and the locale.
C20_OutOfRangeFormZero ==
    /\ (Made("transformPhrase") /\ call.phrase \in PluralPhrases /\ call.subs \in CountSubs)
        => LET r == pluralTypeIndex(defaultPluralRules, LocaleOfCall, CountOfCall) IN
           (r.status = "ok" /\ (r.idx < 0 \/ r.idx >= NumForms(call.phrase)))
           => ret = Returned(Str(FirstForm(call.phrase, CountOfCall)))
    /\ \A e \in SegTable :
         (Made("transformPhrase") /\ call.phrase = Str(e.phrase) /\ call.subs.t = "number"
            /\ OwnNamesOnly(e.segs))
         => ret = Returned(Str(Trim(e.phrase)))

\* the same for the locales whose family is found
C20_ResolvedLocales ==
    /\ (Made("transformPhrase") /\ call.phrase \in PluralPhrases /\ call.subs \in CountSubs)
        => LET r == pluralTypeIndex(defaultPluralRules, LocaleOfCall, CountOfCall) IN
           (r.status = "ok" /\ (r.idx < 0 \/ r.idx >= NumForms(call.phrase)))
           => ret = Returned(Str(FirstForm(call.phrase, CountOfCall)))
    /\ \A e \in SegTable :
         (Made("transformPhrase") /\ call.phrase = Str(e.phrase) /\ call.subs.t = "number"
            /\ OwnNamesOnly(e.segs)
            /\ pluralTypeIndex(defaultPluralRules, LocaleOfCall, call.subs.n).status = "ok")
         => ret = Returned(Str(Trim(e.phrase)))

\* under 'ar' the count 5 has category 3 and the phrase has two forms
C20_WitnessTooLarge ==
    /\ Made("transformPhrase") /\ call.phrase = Str(english)
    /\ call.subs = NumSubs(5) /\ call.locale = Str(ar)
    /\ ret = Returned(Str(<<"5", " ", "N", "a", "m", "e">>))

\* under 'ar' the count -1 has category -1
C20_WitnessNegative ==
    /\ Made("transformPhrase") /\ call.phrase = Str(english)
    /\ call.subs = NumSubs(0 - 1) /\ call.locale = Str(ar)
    /\ ret = Returned(Str(<<"-", "1", " ", "N", "a", "m", "e">>))

\* the forms of the phrases of FormPhrases, trimmed
TrimmedForms(p) ==
    CASE p = Str(emptySecond) -> <<<<"a">>, <<>>>>
      [] p = Str(blankSecond) -> <<<<"a">>, <<>>>>
      [] p = Str(emptyFirst) -> <<<<>>, <<"b">>>>

\* C27: when a count selects an index within the forms of the phrase, the
\* result is that form, trimmed, also when the form is empty or white
\* space only; the first form stands in only for an index out of bounds.
C27_FormAtIndexInBounds ==
    (Made("transformPhrase") /\ call.phrase \in FormPhrases /\ call.subs.t = "number")
    => LET r == pluralTypeIndex(defaultPluralRules, LocaleOfCall, call.subs.n) IN
       (r.status = "ok" /\ r.idx \in 0..1)
       => ret = Returned(Str(TrimmedForms(call.phrase)[r.idx + 1]))

\* the same for the phrases whose selected form is not the empty string
C27_NonEmptyForms ==
    (Made("transformPhrase") /\ call.phrase \in FormPhrases /\ call.subs.t = "number"
        /\ call.phrase # Str(emptySecond))
    => LET r == pluralTypeIndex(defaultPluralRules, LocaleOfCall, call.subs.n) IN
       (r.status = "ok" /\ r.idx \in 0..1)
       => ret = Returned(Str(TrimmedForms(call.phrase)[r.idx + 1]))

\* C28: a form is selected exactly when the substitutions hold a number
\* under smart_count: without smart_count, or with the string '1' or null
\* under it, the phrase keeps every '||||' and its white space and is only
\* interpolated; with a number it is one trimmed form.
C28_PluralizationIffNumber ==
    (Made("transformPhrase") /\ call.phrase \in {Str(english), Str(padded)})
    => /\ (call.subs \in NonCountSubs /\ call.phrase = Str(padded))
            => ret = Returned(Str(padded))
       /\ (call.subs \in NonCountSubs /\ call.phrase = Str(english))
            => LET count == IF call.subs.props = (smart_count :> Str(<<"1">>)) THEN <<"1">>
                           ELSE IF call.subs.props = (smart_count :> Null)
                                THEN <<"n", "u", "l", "l">>
                                ELSE <<"%", "{">> \o smart_count \o <<"}">>
               IN  ret = Returned(Str(count \o <<" ", "N", "a", "m", "e", " ", "|", "|", "|", "|", " ">>
                                      \o count \o <<" ", "N", "a", "m", "e", "s">>))
       /\ (call.subs.t = "number" /\ call.phrase = Str(padded) /\ call.locale = Undefined)
            => ret = Returned(Str(IF call.subs.n = 1 THEN <<"a">> ELSE <<"b">>))

\* transformPhrase(english, {smart_count: '1'}) has returned both forms
C28_Witness ==
    /\ Made("transformPhrase") /\ call.phrase = Str(english)
    /\ call.subs = Subs(smart_count :> Str(<<"1">>))
    /\ ret = Returned(Str(<<"1", " ", "N", "a", "m", "e", " ", "|", "|", "|", "|", " ",
                              "1", " ", "N", "a", "m", "e", "s">>))

\* the number of categories of the families of the default table
Categories(type) ==
    CASE type = "arabic" -> 6
      [] type \in {"bosnian_serbian", "croatian", "russian"} -> 3
      [] type = "chinese" -> 1
      [] type \in {"german", "french", "icelandic"} -> 2
      [] type \in {"lithuanian", "czech", "polish"} -> 3
      [] type = "slovenian" -> 4

\* C29: for every locale of the default table and every integer count,
\* the negative ones included, the category is at least 0 and less than
\* the number of categories of the locale's family.
C29_CategoryInRange ==
    (Made("pluralTypeIndex") /\ call.locale.s \in TableLocales)
    => /\ ret.status = "ok"
       /\ ret.value.n \in
            0..(Categories(langToTypeMap(defaultPluralTypeToLanguages)[call.locale.s]) - 1)

\* the same for the counts that are not negative
C29_NaturalCounts ==
    (Made("pluralTypeIndex") /\ call.locale.s \in TableLocales /\ call.subs.n >= 0)
    => /\ ret.status = "ok"
       /\ ret.value.n \in
            0..(Categories(langToTypeMap(defaultPluralTypeToLanguages)[call.locale.s]) - 1)

\* the same for the negative counts of the families other than arabic
C29_NegativeCountsNotArabic ==
    (Made("pluralTypeIndex") /\ call.locale.s \in TableLocales /\ call.subs.n < 0
        /\ call.locale.s # ar)
    => /\ ret.status = "ok"
       /\ ret.value.n \in
            0..(Categories(langToTypeMap(defaultPluralTypeToLanguages)[call.locale.s]) - 1)

\* '<n> form zero' and '<n> form one'
FormText(n, i) ==
    NumberToString(n) \o (IF i = 0 THEN <<" ", "f", "o", "r", "m", " ", "z", "e", "r", "o">>
                          ELSE <<" ", "f", "o", "r", "m", " ", "o", "n", "e">>)

\* C21: a rule set given to the constructor is the instance's rule set as
\* it is, without the built-in table: the locales of the given table use
\* its functions, and a locale that only the built-in table lists is not
\* resolved through the built-in table (it takes the given table's 'en'
\* entry, and fails with a TypeError when the given table has none).
C21_CustomRulesReplace ==
    /\ (call.op = "new" /\ pc = "ready")
        => pluralRules = IF call.options.pluralRules = NoRules THEN defaultPluralRules
                         ELSE IF call.options.pluralRules = Rules(customPluralRules)
                              THEN customPluralRules ELSE swappedPluralRules
    /\ (call.op = "t" /\ pluralRules # defaultPluralRules)
        => LET n == call.options.n IN
           IF pluralRules = customPluralRules
           THEN IF currentLocale = x1
                THEN ret = Returned(Str(FormText(n, IF n = 1 THEN 0 ELSE 1)))
                ELSE IF currentLocale = x2
                THEN ret = Returned(Str(FormText(n, IF n <= 1 THEN 0 ELSE 1)))
                ELSE ret = Thrown("TypeError")
           ELSE /\ pluralRules = swappedPluralRules
                /\ ret = IF currentLocale = fr
                         THEN Returned(Str(FormText(n, IF n = 1 THEN 0 ELSE 1)))
                         ELSE Returned(Str(FormText(n, IF n <= 1 THEN 0 ELSE 1)))

\* with the rule set that lists 'fr' and 'en' only, the count 5 under 'ru'
\* takes the second form (the built-in russian rule would take the first)
C21_Witness ==
    /\ call.op = "t" /\ pluralRules = swappedPluralRules
    /\ currentLocale = ru /\ call.options = NumSubs(5)
    /\ ret = Returned(Str(FormText(5, 1)))

\* with the rule set of 'x1' and 'x2', t under 'ru' has thrown
C21_WitnessNoEnglish ==
    /\ call.op = "t" /\ pluralRules = customPluralRules
    /\ currentLocale = ru
    /\ ret = Thrown("TypeError")

\* the form of test_phrase the built-in rules select for count n under the
\* locales of NewLocales
BuiltInForm(locale, n) ==
    IF locale = fr THEN (IF n <= 1 THEN 0 ELSE 1)
    ELSE IF locale = ru THEN (IF n = 2 THEN 1 ELSE 0)
    ELSE (IF n = 1 THEN 0 ELSE 1)

\* what holds of every step whatever the argument of locale
LocaleFrame ==
    /\ (call'.op = "new" /\ pc' = "ready" /\ call'.options.locale = Undefined)
        => currentLocale' = en
    /\ (call'.op = "locale" /\ call'.newLocale = Undefined)
        => (currentLocale' = currentLocale /\ ret' = Returned(Str(currentLocale)))
    /\ (call'.op = "t")
        => /\ currentLocale' = currentLocale
           /\ pluralRules = defaultPluralRules
               => ret' = Returned(Str(FormText(call'.options.n,
                                       BuiltInForm(currentLocale, call'.options.n))))

\* C26: an instance constructed without a locale has the locale 'en';
\* locale(x) with any string x makes x the locale and returns it; locale()
\* returns the argument of the most recent locale(x); t pluralizes with
\* that locale.
C26_LocaleAnyString ==
    [][/\ LocaleFrame
       /\ (call'.op = "locale" /\ call'.newLocale.t = "string")
           => (currentLocale' = call'.newLocale.s /\ ret' = Returned(call'.newLocale))]_vars

\* C26, amended: the same for every string x but the empty one;
\* locale('') leaves the locale as it is and returns it, as locale() does.
C26_LocaleNonEmptyString ==
    [][/\ LocaleFrame
       /\ (call'.op = "locale" /\ call'.newLocale.t = "string" /\ call'.newLocale.s # <<>>)
           => (currentLocale' = call'.newLocale.s /\ ret' = Returned(call'.newLocale))
       /\ (call'.op = "locale" /\ call'.newLocale = Str(<<>>))
           => (currentLocale' = currentLocale /\ ret' = Returned(Str(currentLocale)))]_vars

\* locale('') was called on an instance whose locale is 'x1', and returned
\* 'x1'
C26_Witness ==
    /\ call.op = "locale" /\ call.newLocale = Str(<<>>)
    /\ currentLocale = x1
    /\ ret = Returned(Str(x1))

\* after locale('fr'), t with the count 0 has taken the first form
C26_WitnessPluralizes ==
    /\ call.op = "t" /\ pluralRules = defaultPluralRules
    /\ currentLocale = fr /\ call.options = NumSubs(0)
    /\ ret = Returned(Str(FormText(0, 0)))

\* The leaves of a mapping by the rule of the dotted paths: the pairs
\* <<key, phrase>> where key is the path of the keys to the leaf joined by
\* '.', after the prefix when there is one (top says there is none).
RECURSIVE DottedLeaves(_, _, _)
DottedLeaves(entries, prefix, top) ==
    IF entries = <<>> THEN {}
    ELSE LET key == IF top THEN Head(entries)[1]
                    ELSE prefix \o <<".">> \o Head(entries)[1]
             phrase == Head(entries)[2]
         IN  (IF TypeOf(phrase) = "object" THEN DottedLeaves(phrase.entries, key, FALSE)
              ELSE {<<key, phrase>>})
             \cup DottedLeaves(Tail(entries), prefix, top)

\* the leaves of the mapping of a call of extend, unset or replace
LeavesOf(c) ==
    IF c.op = "replace" THEN DottedLeaves(c.phrases, <<>>, TRUE)
    ELSE IF c.op = "unset" THEN DottedLeaves(c.phrases.entries, c.prefix, c.prefix = <<>>)
    ELSE DottedLeaves(c.phrases, c.prefix, c.prefix = <<>>)

KeysOf(c) == {l[1] : l \in LeavesOf(c)}

\* the dictionaries d and e hold the same at key k
SameAt(d, e, k) ==
    /\ k \in DOMAIN d <=> k \in DOMAIN e
    /\ k \in DOMAIN d => d[k] = e[k]

\* the mapping of the call has no empty key
PlainKeys(c) == c.phrases # underEmptyKey

\* C22: extend(P) gives every key of P its new phrase and leaves every
\* other key as it was, so that a t that follows returns the phrase of the
\* most recent extend that held its key.
C22_ExtendOverrides ==
    [][/\ call'.op = "extend"
           => /\ \A l \in LeavesOf(call') :
                    l[1] \in DOMAIN phrases' /\ phrases'[l[1]] = l[2]
              /\ \A k \in (DOMAIN phrases \cup DOMAIN phrases') \ KeysOf(call') :
                    SameAt(phrases, phrases', k)
       /\ (call.op = "extend" /\ call'.op = "t")
           => \A l \in LeavesOf(call) : call'.key = l[1] => ret' = Returned(l[2])]_vars

\* the same for the mappings without empty key
C22_PlainKeys ==
    [][/\ (call'.op = "extend" /\ PlainKeys(call'))
           => /\ \A l \in LeavesOf(call') :
                    l[1] \in DOMAIN phrases' /\ phrases'[l[1]] = l[2]
              /\ \A k \in (DOMAIN phrases \cup DOMAIN phrases') \ KeysOf(call') :
                    SameAt(phrases, phrases', k)
       /\ (call.op = "extend" /\ PlainKeys(call) /\ call'.op = "t")
           => \A l \in LeavesOf(call) : call'.key = l[1] => ret' = Returned(l[2])]_vars

\* the positions around the parts of a dotted key
Cuts(k) == {0, Len(k) + 1} \cup {i \in 1..Len(k) : k[i] = "."}

\* the bare names and partial paths of a dotted key
PartialPaths(k) ==
    {SubSeq(k, c[1] + 1, c[2] - 1) :
        c \in {d \in Cuts(k) \X Cuts(k) : d[1] < d[2]}} \ {k}

\* C23: extend(P, prefix) stores every string leaf of P under the optional
\* prefix and the keys of the path to the leaf joined by '.', and stores
\* nothing under a bare leaf name or a partial path.
C23_DottedKeys ==
    [][call'.op = "extend"
       => /\ \A l \in LeavesOf(call') :
                l[1] \in DOMAIN phrases' /\ phrases'[l[1]] = l[2]
          /\ \A k \in UNION {PartialPaths(key) : key \in KeysOf(call')} \ KeysOf(call') :
                SameAt(phrases, phrases', k)]_vars

\* the same for the mappings without empty key
C23_PlainKeys ==
    [][(call'.op = "extend" /\ PlainKeys(call'))
       => /\ \A l \in LeavesOf(call') :
                l[1] \in DOMAIN phrases' /\ phrases'[l[1]] = l[2]
          /\ \A k \in UNION {PartialPaths(key) : key \in KeysOf(call')} \ KeysOf(call') :
                SameAt(phrases, phrases', k)]_vars

\* extend of the nested mapping has stored 'nav.header.log_in' and neither
\* 'log_in' nor 'header.log_in'
C23_WitnessNested ==
    /\ call.op = "extend" /\ call.phrases = nested
    /\ nav_header_log_in \in DOMAIN phrases
    /\ log_in \notin DOMAIN phrases
    /\ (header \o <<".">> \o log_in) \notin DOMAIN phrases

\* C24: after replace(P) the dictionary holds the flattened entries of P
\* and nothing else, whatever it held before: t gives the new phrase of
\* every key of P and the key itself for every other key; after clear()
\* every key is missing.
C24_ReplaceExactly ==
    [][/\ call'.op = "replace"
           => /\ DOMAIN phrases' = KeysOf(call')
              /\ \A l \in LeavesOf(call') : phrases'[l[1]] = l[2]
       /\ (call.op = "replace" /\ call'.op = "t")
           => ret'.value = IF call'.key \in KeysOf(call)
                           THEN (CHOOSE l \in LeavesOf(call) : l[1] = call'.key)[2]
                           ELSE Str(call'.key)
       /\ call'.op = "clear" => DOMAIN phrases' = {}
       /\ (call.op = "clear" /\ call'.op = "t") => ret'.value = Str(call'.key)]_vars

\* the same for the mappings without empty key
C24_PlainKeys ==
    [][/\ (call'.op = "replace" /\ PlainKeys(call'))
           => /\ DOMAIN phrases' = KeysOf(call')
              /\ \A l \in LeavesOf(call') : phrases'[l[1]] = l[2]
       /\ (call.op = "replace" /\ PlainKeys(call) /\ call'.op = "t")
           => ret'.value = IF call'.key \in KeysOf(call)
                           THEN (CHOOSE l \in LeavesOf(call) : l[1] = call'.key)[2]
                           ELSE Str(call'.key)
       /\ call'.op = "clear" => DOMAIN phrases' = {}
       /\ (call.op = "clear" /\ call'.op = "t") => ret'.value = Str(call'.key)]_vars

\* the keys a call of unset names
UnsetKeys(c) == IF c.phrases.t = "string" THEN {c.phrases.s} ELSE KeysOf(c)

\* C25: after unset(k) of a string k, and after unset(P) of a mapping P
\* for the dotted key of every leaf of P, the key is gone and has is
\* false, and every other key keeps its phrase; unset(P) after extend(P)
\* leaves none of the keys of P.
C25_UnsetRemoves ==
    [][/\ call'.op = "unset"
           => /\ \A k \in UnsetKeys(call') : k \notin DOMAIN phrases'
              /\ \A k \in (DOMAIN phrases \cup DOMAIN phrases') \ UnsetKeys(call') :
                    SameAt(phrases, phrases', k)
       /\ (call.op = "unset" /\ call'.op = "has" /\ call'.key \in UnsetKeys(call))
           => ret' = Returned(Bool(FALSE))
       /\ (call.op = "extend" /\ call'.op = "unset"
              /\ call'.phrases = Mapping(call.phrases) /\ call'.prefix = call.prefix)
           => \A k \in KeysOf(call) : k \notin DOMAIN phrases']_vars

\* the same for the mappings without empty key and the keys that name no
\* member of Object.prototype
C25_PlainOwnKeys ==
    [][/\ (call'.op = "unset" /\ call'.phrases # Mapping(underEmptyKey))
           => /\ \A k \in UnsetKeys(call') : k \notin DOMAIN phrases'
              /\ \A k \in (DOMAIN phrases \cup DOMAIN phrases') \ UnsetKeys(call') :
                    SameAt(phrases, phrases', k)
       /\ (call.op = "unset" /\ call'.op = "has" /\ call'.key \in UnsetKeys(call)
              /\ call'.key \notin ObjectPrototypeKeys)
           => ret' = Returned(Bool(FALSE))
       /\ (call.op = "extend" /\ call'.op = "unset"
              /\ call'.phrases = Mapping(call.phrases) /\ call'.prefix = call.prefix)
           => \A k \in KeysOf(call) : k \notin DOMAIN phrases']_vars

====
